---- MODULE Spec2Model ----
(***************************************************************************)
(* A model of the scrape orchestration core of mozy-scrape:                *)
(*   BrowserPool (src/src/browser-pool.ts) and Scraper                     *)
(*   (src/unnamed/part_001).                                               *)
(*                                                                         *)
(* JavaScript runs the application on one thread; every `await` is a       *)
(* suspension point.  Each action below is the code between two            *)
(* suspension points of one async function.                                *)
(***************************************************************************)
EXTENDS Naturals, Integers, Sequences, FiniteSets, TLC

\* ------------------------------------------------------------ bounds
MaxConcurrency == 2     \* largest configured concurrency (= pool size)
MaxUses == 2            \* largest configured contextMaxUses
MaxCallers == 3         \* direct callers of acquire/release in SpecPool
MaxRounds == 2          \* acquire/release rounds per direct caller
MaxHandles == 4         \* browser contexts created in one behaviour
MaxFaults == 1          \* failures injected by the environment
MaxCalls == 2           \* public Scraper calls in one behaviour
MaxUrls == 2            \* longest url list of one call
MaxStreamUrls == 3      \* longest url list of the call of SpecStream
MaxJobs == 2            \* jobs the calls of one behaviour of Spec create

NoHandle == 0           \* "no BrowserContext" (null / undefined)

MaxTime == 4            \* the clock stops advancing here
MaxDelay == 2           \* largest configured perDomainDelayMs
MaxRender == 2          \* longest render, in time units
MaxHtml == 5            \* longest html text, in tokens
MaxBody == 2            \* longest response body of a timed fetch, in tokens
MaxFetchTime == 12      \* seconds a fetch is observed for

JobsPerCall == IF MaxUrls > MaxStreamUrls THEN MaxUrls ELSE MaxStreamUrls
NumJobs == IF MaxCallers > MaxCalls * JobsPerCall THEN MaxCallers
                                                  ELSE MaxCalls * JobsPerCall
JobIds == 1..NumJobs
Calls == 1..MaxCalls
Urls == {"a/1", "b/1"}     \* the urls of the public calls
UnitRender == [i \in 1..JobsPerCall |-> 1]   \* every render takes one time unit
NoResult == [id |-> 0, url |-> "", error |-> FALSE]
Never == 0 - 1          \* "has not happened" as a time

VARIABLES
    \* ---- configuration (ScrapeConfig)
    concurrency,        \* config.concurrency = BrowserPool.poolSize
    contextMaxUses,     \* config.contextMaxUses
    skipStaticDetection,\* config.skipStaticDetection
    preExtractScript,   \* whether config.preExtractScript is set
    renderMs,           \* environment: how long the render of the i-th job of
                        \* a call takes
    perDomainDelayMs,   \* config.perDomainDelayMs
    \* ---- Scraper fields
    initialized,        \* Scraper.initialized
    qpending, qqueue,   \* PQueue: running tasks, queued tasks (job ids)
    \* ---- public calls: scrape / scrapeMany / scrapeStream
    ckind, curls, cpc,  \* which operation, its urls, its position
    cret,               \* what the call resolved with
    sresults,           \* scrapeStream's local `results`
    sdone, spending,    \* scrapeStream's locals `done` and `pending`
    yielded,            \* results the stream has yielded so far
    \* ---- jobs (ScrapeJob and its processJob / queue task)
    jurl, jprio,        \* job.url, the priority given to queue.add
    jres,               \* the ScrapeResult processJob resolved with
    jok,                \* whether the inner try block completed
    \* ---- domain pacing
    now,                \* Date.now()
    domainLastRequest,  \* Map<string, number>
    wake,               \* when the setTimeout of a pacing wait is due
    totalStart,         \* processJob's totalStart: when the job was entered
    dispatched,         \* when throttleDomain returned to the job
    renderEnd,          \* when the render of the job's page is complete
    \* ---- BrowserPool fields
    browser,            \* 0 = null, otherwise the number of the launched engine
    launches,           \* chromium.launch calls made so far
    entries,            \* heap of BrowserPoolContext objects; handle h = index
    contexts,           \* Map<number, BrowserPoolContext>: slot id -> handle
    available,          \* BrowserPoolContext[] (idle entries)
    waiters,            \* queued resolvers, as the ids of the suspended callers
    nextContextId,      \* BrowserPool.nextContextId
    recycling,          \* release-triggered recycleContext(...).then(...) tasks
    unhandled,          \* promise rejections nobody handles
    ipc, iidx,          \* BrowserPool.initialize invocations: position, loop index
    spc, skind,         \* shutdown invocations: position, "pool" or "scraper"
    svisited,           \* slot ids the `for ... of contexts.values()` has visited
    \* ---- the fast path's decision on one response
    html,               \* tryStaticFetch's `html`, as a sequence of tokens
    route,              \* "none", then "static" (final) or "browser" (slow path)
    \* ---- tryStaticFetch
    fpc,                \* position inside tryStaticFetch
    ftimer,             \* the abort timer: "none", "armed", "cleared", "fired"
    fclock,             \* seconds since the request was issued
    response,           \* what the server answers: ok and content-type
    \* ---- callers of acquire / jobs
    jpc,                \* position of each caller
    jentry,             \* acquire's local poolCtx
    held,               \* the BrowserContext acquire returned to the caller
    rounds,             \* acquire calls made by a direct caller
    \* ---- environment and history
    faults,             \* failures the environment has injected so far
    order,              \* the callers inside acquire, in the order of their calls
    lastHandle          \* per slot id, the handle acquire returned last

poolVars == <<browser, launches, entries, contexts, available, waiters, nextContextId,
              recycling, unhandled>>
initVars == <<ipc, iidx>>
shutVars == <<spc, skind, svisited>>
fetchVars == <<fpc, ftimer, fclock, response>>
spaVars == <<html, route, fetchVars>>
cfgVars == <<concurrency, contextMaxUses, skipStaticDetection, preExtractScript,
             perDomainDelayMs, renderMs>>
callVars == <<ckind, curls, cpc, cret, sresults, sdone, spending, yielded>>
queueVars == <<qpending, qqueue>>
scraperVars == <<initialized, queueVars, callVars, jurl, jprio, jres, jok>>
throttleVars == <<now, domainLastRequest, wake, totalStart, dispatched, renderEnd>>
jobVars == <<jpc, jentry, held, rounds>>
histVars == <<order, lastHandle>>
vars == <<cfgVars, poolVars, initVars, jobVars, faults, histVars, scraperVars,
          throttleVars, shutVars, spaVars>>

\* ------------------------------------------------------------ helpers
Last(s) == s[Len(s)]
Front(s) == SubSeq(s, 1, Len(s) - 1)
Put(f, k, v) == [x \in (DOMAIN f) \cup {k} |-> IF x = k THEN v ELSE f[x]]
Range(s) == {s[i] : i \in DOMAIN s}
Without(s, x) == SelectSeq(s, LAMBDA y : y # x)
Before(s, x, y) ==
    \E i, k \in DOMAIN s : i < k /\ s[i] = x /\ s[k] = y

\* ------------------------------------------------------------ BrowserPool
\* The entry createPoolContext returns: busy false, useCount 0, the given id.
createPoolContext(id) == [id |-> id, useCount |-> 0, busy |-> FALSE]

\* The handle the next created entry gets (a new object each time).
NewHandle == Len(entries) + 1

PopAvailableKeep == available

\* this.available after `this.available.pop()`.
PopAvailable == Front(available)

\* release's lookup: the entries of this.contexts whose context is ctx.
OwnerSlots(ctx) == {s \in DOMAIN contexts : contexts[s] = ctx}

needsRecycleNever(h) == FALSE

\* release's needsRecycle.
needsRecycle(h) ==
    contextMaxUses > 0 /\ entries[h].useCount >= contextMaxUses

\* The waiter closure / the tail of acquire: useCount++, busy = true.
MarkAcquired(ents, h) ==
    [ents EXCEPT ![h].useCount = @ + 1, ![h].busy = TRUE]

OfferLast(h, ents, pcs, hs) ==
    IF waiters # <<>>
    THEN LET w == Last(waiters) IN
         /\ waiters' = Front(waiters)
         /\ available' = available
         /\ entries' = MarkAcquired(ents, h)
         /\ jpc' = [pcs EXCEPT ![w] = "resumed"]
         /\ held' = [hs EXCEPT ![w] = h]
         /\ lastHandle' = Put(lastHandle, ents[h].id, h)
    ELSE /\ waiters' = waiters
         /\ available' = Append(available, h)
         /\ entries' = ents
         /\ jpc' = pcs
         /\ held' = hs
         /\ lastHandle' = lastHandle

\* `waiters.shift(); if (waiter) waiter(e) else available.push(e)` on entry h,
\* starting from the entries, positions and handles given.
Offer(h, ents, pcs, hs) ==
    IF waiters # <<>>
    THEN LET w == Head(waiters) IN
         /\ waiters' = Tail(waiters)
         /\ available' = available
         /\ entries' = MarkAcquired(ents, h)
         /\ jpc' = [pcs EXCEPT ![w] = "resumed"]
         /\ held' = [hs EXCEPT ![w] = h]
         /\ lastHandle' = Put(lastHandle, ents[h].id, h)
    ELSE /\ waiters' = waiters
         /\ available' = Append(available, h)
         /\ entries' = ents
         /\ jpc' = pcs
         /\ held' = hs
         /\ lastHandle' = lastHandle

RecycleInstallNoSet(old) ==
    /\ Len(entries) < MaxHandles
    /\ entries' = Append(entries, createPoolContext(entries[old].id))
    /\ contexts' = contexts
    /\ nextContextId' = nextContextId + 1

\* recycleContext after its two awaits: the fresh entry takes the old slot id.
RecycleInstall(old) ==
    /\ Len(entries) < MaxHandles
    /\ entries' = Append(entries, createPoolContext(entries[old].id))
    /\ contexts' = Put(contexts, entries[old].id, NewHandle)
    /\ nextContextId' = nextContextId + 1

\* ---- initialize (one invocation per caller c of Scraper.initialize)
PoolInitialize(c) ==
    /\ ipc[c] = "idle"
    /\ ipc' = [ipc EXCEPT ![c] = "launch"]
    /\ UNCHANGED <<cfgVars, shutVars, spaVars, scraperVars, throttleVars, poolVars, iidx, jobVars, faults, histVars>>

PoolLaunch(c) ==
    /\ ipc[c] = "launch"
    /\ browser' = launches + 1
    /\ launches' = launches + 1
    /\ ipc' = [ipc EXCEPT ![c] = "create"]
    /\ iidx' = [iidx EXCEPT ![c] = 0]
    /\ UNCHANGED <<cfgVars, shutVars, spaVars, scraperVars, throttleVars, entries, contexts, available, waiters, nextContextId,
                   recycling, unhandled, jobVars, faults, histVars>>

PoolCreate(c) ==
    /\ ipc[c] = "create"
    /\ \/ /\ browser # 0
          /\ Len(entries) < MaxHandles
          /\ entries' = Append(entries, createPoolContext(nextContextId))
          /\ nextContextId' = nextContextId + 1
          /\ contexts' = Put(contexts, nextContextId, NewHandle)
          /\ available' = Append(available, NewHandle)
          /\ iidx' = [iidx EXCEPT ![c] = @ + 1]
          /\ ipc' = [ipc EXCEPT ![c] =
                        IF iidx[c] + 1 < concurrency THEN "create" ELSE "done"]
          /\ UNCHANGED faults
       \/ /\ faults < MaxFaults \/ browser = 0
          /\ faults' = IF browser = 0 THEN faults ELSE faults + 1
          /\ ipc' = [ipc EXCEPT ![c] = "failed"]
          /\ UNCHANGED <<entries, nextContextId, contexts, available, iidx>>
    /\ UNCHANGED <<cfgVars, shutVars, spaVars, scraperVars, throttleVars, browser, launches, waiters, recycling, unhandled,
                   jobVars, histVars>>

\* ---- acquire
\* Lines 116-117 and 137-145: pop an idle entry, or queue a waiter.
acquire(j) ==
    /\ order' = Append(order, j)
    /\ IF available # <<>>
       THEN /\ jentry' = [jentry EXCEPT ![j] = Last(available)]
            /\ available' = PopAvailable
            /\ jpc' = [jpc EXCEPT ![j] = "probe"]
            /\ UNCHANGED waiters
       ELSE /\ waiters' = Append(waiters, j)
            /\ jpc' = [jpc EXCEPT ![j] = "waiting"]
            /\ UNCHANGED <<jentry, available>>

\* What a call of acquire leaves alone.
AcquireFrame ==
    UNCHANGED <<cfgVars, shutVars, spaVars, browser, launches, entries, contexts, nextContextId,
                recycling, unhandled, initVars, held, faults, lastHandle>>

\* Lines 119-134: the liveness probe `await poolCtx.context.pages()`.
AcquireProbe(j) ==
    /\ jpc[j] = "probe"
    /\ \/ /\ entries' = MarkAcquired(entries, jentry[j])
          /\ held' = [held EXCEPT ![j] = jentry[j]]
          /\ jpc' = [jpc EXCEPT ![j] = "acquired"]
          /\ lastHandle' = Put(lastHandle, entries[jentry[j]].id, jentry[j])
          /\ order' = Without(order, j)
          /\ UNCHANGED faults
       \/ /\ faults < MaxFaults
          /\ faults' = faults + 1
          /\ jpc' = [jpc EXCEPT ![j] = "acqClose"]
          /\ UNCHANGED <<entries, held, lastHandle, order>>
    /\ UNCHANGED <<cfgVars, shutVars, spaVars, scraperVars, throttleVars, browser, launches, contexts, available, waiters,
                   nextContextId, recycling, unhandled, initVars, jentry, rounds>>

\* Line 189 reached from line 123: `await oldCtx.context.close().catch(...)`.
AcquireRecycleClose(j) ==
    /\ jpc[j] = "acqClose"
    /\ jpc' = [jpc EXCEPT ![j] = "acqCreate"]
    /\ UNCHANGED <<cfgVars, shutVars, spaVars, scraperVars, throttleVars, poolVars, initVars, jentry, held, rounds, faults,
                   histVars>>

\* Lines 190-193 reached from line 123: a throw rejects acquire itself.
AcquireRecycleCreate(j) ==
    /\ jpc[j] = "acqCreate"
    /\ \/ /\ browser # 0
          /\ RecycleInstall(jentry[j])
          /\ jpc' = [jpc EXCEPT ![j] = "acqFresh"]
          /\ UNCHANGED <<faults, order>>
       \/ /\ faults < MaxFaults \/ browser = 0
          /\ faults' = IF browser = 0 THEN faults ELSE faults + 1
          /\ jpc' = [jpc EXCEPT ![j] = "acqRejected"]
          /\ order' = Without(order, j)
          /\ UNCHANGED <<entries, contexts, nextContextId>>
    /\ UNCHANGED <<cfgVars, shutVars, spaVars, scraperVars, throttleVars, browser, launches, available, waiters, recycling,
                   unhandled, initVars, jentry, held, rounds, lastHandle>>

\* Lines 124-134: hand out the fresh entry of the slot (or, without one, the old).
AcquireFresh(j) ==
    /\ jpc[j] = "acqFresh"
    /\ LET id == entries[jentry[j]].id
           h == IF id \in DOMAIN contexts THEN contexts[id] ELSE jentry[j]
       IN /\ entries' = MarkAcquired(entries, h)
          /\ held' = [held EXCEPT ![j] = h]
          /\ lastHandle' = Put(lastHandle, id, h)
    /\ order' = Without(order, j)
    /\ jpc' = [jpc EXCEPT ![j] = "acquired"]
    /\ UNCHANGED <<cfgVars, shutVars, spaVars, scraperVars, throttleVars, browser, launches, contexts, available, waiters,
                   nextContextId, recycling, unhandled, initVars, jentry, rounds,
                   faults>>

\* Lines 139-145: the caller suspended on the waiter promise continues.
AcquireResume(j) ==
    /\ jpc[j] = "resumed"
    /\ jpc' = [jpc EXCEPT ![j] = "acquired"]
    /\ order' = Without(order, j)
    /\ UNCHANGED <<cfgVars, shutVars, spaVars, scraperVars, throttleVars, poolVars, initVars, jentry, held, rounds, faults,
                   lastHandle>>

releaseUnchecked(ctx, pcs, hs) ==
    LET idle == [entries EXCEPT ![ctx].busy = FALSE] IN
    IF needsRecycle(ctx)
    THEN /\ recycling' = recycling \cup {[old |-> ctx, stage |-> "close"]}
         /\ entries' = idle
         /\ jpc' = pcs
         /\ held' = hs
         /\ UNCHANGED <<available, waiters, lastHandle>>
    ELSE /\ Offer(ctx, idle, pcs, hs)
         /\ UNCHANGED recycling

\* ---- release
\* Lines 148-186, called with the context ctx; pcs and hs are the positions and
\* handles of the callers once the releasing caller has moved on.
release(ctx, pcs, hs) ==
    IF OwnerSlots(ctx) = {}
    THEN /\ jpc' = pcs
         /\ held' = hs
         /\ UNCHANGED <<entries, available, waiters, recycling, lastHandle>>
    ELSE LET idle == [entries EXCEPT ![ctx].busy = FALSE] IN
         IF needsRecycle(ctx)
         THEN /\ recycling' = recycling \cup {[old |-> ctx, stage |-> "close"]}
              /\ entries' = idle
              /\ jpc' = pcs
              /\ held' = hs
              /\ UNCHANGED <<available, waiters, lastHandle>>
         ELSE /\ Offer(ctx, idle, pcs, hs)
              /\ UNCHANGED recycling

\* Line 189 reached from line 167.
RecycleClose(t) ==
    /\ t \in recycling
    /\ t.stage = "close"
    /\ recycling' = (recycling \ {t}) \cup {[t EXCEPT !.stage = "create"]}
    /\ UNCHANGED <<cfgVars, shutVars, spaVars, scraperVars, throttleVars, browser, launches, entries, contexts, available,
                   waiters, nextContextId, unhandled, initVars, jobVars, faults,
                   histVars>>

\* Lines 190-193 reached from line 167: a throw rejects the promise release
\* dropped, and the `.then` callback never runs.
RecycleCreate(t) ==
    /\ t \in recycling
    /\ t.stage = "create"
    /\ \/ /\ browser # 0
          /\ RecycleInstall(t.old)
          /\ recycling' = (recycling \ {t}) \cup {[t EXCEPT !.stage = "then"]}
          /\ UNCHANGED <<faults, unhandled>>
       \/ /\ faults < MaxFaults \/ browser = 0
          /\ faults' = IF browser = 0 THEN faults ELSE faults + 1
          /\ recycling' = recycling \ {t}
          /\ unhandled' = unhandled + 1
          /\ UNCHANGED <<entries, contexts, nextContextId>>
    /\ UNCHANGED <<cfgVars, shutVars, spaVars, scraperVars, throttleVars, browser, launches, available, waiters, initVars,
                   jobVars, histVars>>

\* Lines 167-176: the `.then` callback.
RecycleThen(t) ==
    /\ t \in recycling
    /\ t.stage = "then"
    /\ recycling' = recycling \ {t}
    /\ LET id == entries[t.old].id IN
       IF id \in DOMAIN contexts
       THEN Offer(contexts[id], entries, jpc, held)
       ELSE UNCHANGED <<entries, available, waiters, jpc, held, lastHandle>>
    /\ UNCHANGED <<cfgVars, shutVars, spaVars, scraperVars, throttleVars, browser, launches, contexts, nextContextId, unhandled,
                   initVars, jentry, rounds, faults, order>>

\* ---- stats
\* Lines 218-225: the `busy` field stats reports for the entry of slot id.
StatsBusy(id) == entries[contexts[id]].busy

\* Lines 211-234: the object the `stats` getter returns (ages left out).
stats ==
    [total |-> Cardinality(DOMAIN contexts),
     available |-> Len(available),
     busy |-> Cardinality(DOMAIN contexts) - Len(available),
     waiting |-> Len(waiters),
     contexts |-> [id \in DOMAIN contexts |->
                      [id |-> entries[contexts[id]].id,
                       useCount |-> entries[contexts[id]].useCount,
                       busy |-> StatsBusy(id)]]]

\* ---- shutdown (one invocation per k; on the pool or through the Scraper)
\* The slot the iterator of `this.contexts.values()` yields next: the Map
\* iterates in insertion order, and slot ids are inserted in increasing order.
NextSlot(k) ==
    LET rest == DOMAIN contexts \ svisited[k]
    IN CHOOSE id \in rest : \A o \in rest : id <= o

\* Where a shutdown of the given kind is once BrowserPool.shutdown has returned.
PoolShutDown(kind) == IF kind = "scraper" THEN "poolDone" ELSE "returned"

\* Lines 198-205 from the head of the loop to the next await: close the next
\* entry, or leave the loop, clear both collections and close the browser.
ShutdownLoop(k, kind) ==
    IF DOMAIN contexts \ svisited[k] # {}
    THEN /\ svisited' = [svisited EXCEPT ![k] = @ \cup {NextSlot(k)}]
         /\ spc' = [spc EXCEPT ![k] = "close"]
         /\ UNCHANGED <<contexts, available>>
    ELSE /\ contexts' = <<>>
         /\ available' = <<>>
         /\ svisited' = [x \in Calls |-> {}]
         /\ spc' = [spc EXCEPT ![k] =
                       IF browser # 0 THEN "browserClose" ELSE PoolShutDown(kind)]

\* BrowserPool.shutdown() called (kind "pool"), or Scraper.shutdown() called
\* (kind "scraper", part_001 lines 478-480: queue.clear() first).  Invocations
\* follow one another, and are made once initialize is over.
ShutdownCall(k, kind) ==
    /\ spc[k] = "idle"
    /\ \A o \in 1..(k - 1) : spc[o] = "returned"
    /\ ipc[1] \in {"done", "failed"}
    /\ skind' = [skind EXCEPT ![k] = kind]
    /\ qqueue' = IF kind = "scraper" THEN <<>> ELSE qqueue
    /\ ShutdownLoop(k, kind)
    /\ UNCHANGED <<cfgVars, spaVars, browser, launches, entries, waiters, nextContextId,
                   recycling, unhandled, initVars, jobVars, faults, histVars,
                   initialized, qpending, callVars, jurl, jprio, jres, jok,
                   throttleVars>>

\* Line 199: `await poolCtx.context.close().catch(() => {})` is over, whether
\* the close succeeded or threw.
ShutdownClosed(k) ==
    /\ spc[k] = "close"
    /\ \/ UNCHANGED faults
       \/ /\ faults < MaxFaults
          /\ faults' = faults + 1
    /\ ShutdownLoop(k, skind[k])
    /\ UNCHANGED <<cfgVars, spaVars, browser, launches, entries, waiters, nextContextId,
                   recycling, unhandled, initVars, jobVars, histVars,
                   scraperVars, throttleVars, skind>>

\* Lines 205-206: `await this.browser.close().catch(() => {})` is over.
ShutdownBrowserClosed(k) ==
    /\ spc[k] = "browserClose"
    /\ \/ UNCHANGED faults
       \/ /\ faults < MaxFaults
          /\ faults' = faults + 1
    /\ browser' = 0
    /\ spc' = [spc EXCEPT ![k] = PoolShutDown(skind[k])]
    /\ UNCHANGED <<cfgVars, spaVars, launches, entries, contexts, available, waiters,
                   nextContextId, recycling, unhandled, initVars, jobVars,
                   histVars, scraperVars, throttleVars, skind, svisited>>

\* part_001 lines 480-481: pool.shutdown() has returned to Scraper.shutdown.
ScraperShutdownDone(k) ==
    /\ spc[k] = "poolDone"
    /\ initialized' = FALSE
    /\ spc' = [spc EXCEPT ![k] = "returned"]
    /\ UNCHANGED <<cfgVars, spaVars, poolVars, initVars, jobVars, faults, histVars,
                   queueVars, callVars, jurl, jprio, jres, jok, throttleVars,
                   skind, svisited>>

\* ------------------------------------------------------------ looksLikeSPA
\* An html text is a sequence of tokens: tags, whitespace and runs of text.
\*   "rootDiv"      <div id="root">  (id the first attribute; also app, __next,
\*                  __nuxt)
\*   "rootDivClass" <div class="c" id="root">  (id not the first attribute)
\*   "endDiv" </div>   "body" <body>   "endBody" </body>
\*   "script" <script> "endScript" </script>  "style" <style> "endStyle" </style>
\*   "ws"  one whitespace character
\*   "t50", "t199", "t200", "t500"  text of 50, 199, 200, 500 characters,
\*                  none of them whitespace, `<` or `>`
Tags == {"rootDiv", "rootDivClass", "endDiv", "body", "endBody",
         "script", "endScript", "style", "endStyle"}
Texts == {"t50", "t199", "t200", "t500"}
Tokens == Tags \cup Texts \cup {"ws"}

\* String.length of one token that is not a tag.
CharCount(tok) ==
    CASE tok = "ws" -> 1
      [] tok = "t50" -> 50
      [] tok = "t199" -> 199
      [] tok = "t200" -> 200
      [] tok = "t500" -> 500
      [] OTHER -> 0

\* String.length of a text without tags.
RECURSIVE length(_)
length(s) == IF s = <<>> THEN 0 ELSE CharCount(Head(s)) + length(Tail(s))

\* The text after the first occurrence of tok (tok occurs in s).
RECURSIVE After(_, _)
After(s, tok) == IF Head(s) = tok THEN Tail(s) ELSE After(Tail(s), tok)

\* The text before the first occurrence of tok (tok occurs in s).
RECURSIVE Until(_, _)
Until(s, tok) == IF Head(s) = tok THEN <<>> ELSE <<Head(s)>> \o Until(Tail(s), tok)

\* The text without its leading whitespace.
RECURSIVE TrimStart(_)
TrimStart(s) == IF s # <<>> /\ Head(s) = "ws" THEN TrimStart(Tail(s)) ELSE s

\* The text without its trailing whitespace.
RECURSIVE TrimEnd(_)
TrimEnd(s) == IF s # <<>> /\ Last(s) = "ws" THEN TrimEnd(Front(s)) ELSE s

trimStartOnly(s) == TrimStart(s)

\* String.prototype.trim.
trim(s) == TrimEnd(TrimStart(s))

\* Line 203: /<div\s+id=["'](?:root|app|__next|__nuxt)["'][^>]*>\s*<\/div>/i
\* matches somewhere in s.
RECURSIVE EmptyRootTest(_)
EmptyRootTest(s) ==
    /\ s # <<>>
    /\ \/ /\ Head(s) = "rootDiv"
          /\ TrimStart(Tail(s)) # <<>>
          /\ Head(TrimStart(Tail(s))) = "endDiv"
       \/ EmptyRootTest(Tail(s))

\* Line 208: html.match(/<body[^>]*>([\s\S]*?)<\/body>/i): the captured group
\* as a one-element sequence, or the empty sequence for null.
RECURSIVE bodyMatch(_)
bodyMatch(s) ==
    IF s = <<>> THEN <<>>
    ELSE IF Head(s) = "body" /\ "endBody" \in Range(Tail(s))
         THEN <<Until(Tail(s), "endBody")>>
         ELSE bodyMatch(Tail(s))

\* Lines 211-212: s.replace(/<open[\s\S]*?<\/open>/gi, "").
RECURSIVE ReplacePairs(_, _, _)
ReplacePairs(s, open, close) ==
    IF s = <<>> THEN <<>>
    ELSE IF Head(s) = open /\ close \in Range(Tail(s))
         THEN ReplacePairs(After(Tail(s), close), open, close)
         ELSE <<Head(s)>> \o ReplacePairs(Tail(s), open, close)

\* Line 213: s.replace(/<[^>]+>/g, "").
ReplaceTags(s) == SelectSeq(s, LAMBDA tok : tok \notin Tags)

\* Lines 210-214: bodyContent.
bodyContent(captured) ==
    trim(ReplaceTags(ReplacePairs(ReplacePairs(captured, "script", "endScript"),
                                  "style", "endStyle")))

\* Lines 201-220.
looksLikeSPA(s) ==
    IF EmptyRootTest(s) THEN TRUE
    ELSE IF bodyMatch(s) # <<>>
         THEN length(bodyContent(bodyMatch(s)[1])) < 200
         ELSE FALSE

\* Lines 188-193 and 268-269, 317: the response text has arrived;
\* tryStaticFetch returns null for an SPA shell and processJob goes on to the
\* browser, otherwise processJob returns the static result.
StaticResponse ==
    /\ route = "none"
    /\ route' = IF looksLikeSPA(html) THEN "browser" ELSE "static"
    /\ UNCHANGED <<cfgVars, shutVars, html, fetchVars, poolVars, initVars, jobVars,
                   faults, histVars, scraperVars, throttleVars>>

\* ------------------------------------------------------------ tryStaticFetch
\* Line 166: the abort timer of 10_000 ms, in seconds.
AbortAfter == 10

\* Values of the content-type header, as the pieces `includes` can match.
\* <<>> is the absent header (`|| ""`).
ContentTypes == {<<>>, <<"text/html">>, <<"text/html", "; charset=utf-8">>,
                 <<"application/xhtml", "+xml">>, <<"application/json">>,
                 <<"text/plain">>}
includes(contentType, piece) == \E i \in DOMAIN contentType : contentType[i] = piece

NoResponse == [ok |-> FALSE, contentType |-> <<"none">>]
Responses == [ok : BOOLEAN, contentType : ContentTypes]

FetchFrame ==
    UNCHANGED <<cfgVars, shutVars, html, poolVars, initVars, jobVars, faults,
                histVars, scraperVars, throttleVars>>

\* Lines 165-176: the timer is armed and the request is issued.
FetchIssue ==
    /\ fpc = "idle"
    /\ fpc' = "headers"
    /\ ftimer' = "armed"
    /\ fclock' = 0
    /\ UNCHANGED <<response, route>>
    /\ FetchFrame

\* A second passes while the request or the body read is outstanding.  An
\* armed timer fires when its time has come, before more time passes.
FetchTick ==
    /\ fpc \in {"headers", "body"}
    /\ fclock < MaxFetchTime
    /\ ~(ftimer = "armed" /\ fclock = AbortAfter)
    /\ fclock' = fclock + 1
    /\ UNCHANGED <<fpc, ftimer, response, route>>
    /\ FetchFrame

\* Line 166 and 193-195: the timer fires, controller.abort() rejects the
\* pending fetch, the catch block returns null.
FetchAbort ==
    /\ ftimer = "armed"
    /\ fclock = AbortAfter
    /\ fpc = "headers"
    /\ ftimer' = "fired"
    /\ fpc' = "caught"
    /\ route' = "browser"
    /\ UNCHANGED <<fclock, response>>
    /\ FetchFrame

\* Lines 168-185: fetch resolves with the response headers; clearTimeout,
\* then the status and content-type checks.
FetchHeadersAnyType ==
    /\ fpc = "headers"
    /\ ftimer' = "cleared"
    /\ IF ~response.ok
          THEN fpc' = "returned" /\ route' = "browser"
          ELSE fpc' = "body" /\ route' = route
    /\ UNCHANGED <<fclock, response>>
    /\ FetchFrame

FetchHeaders ==
    /\ fpc = "headers"
    /\ ftimer' = "cleared"
    /\ IF ~response.ok
          THEN fpc' = "returned" /\ route' = "browser"
          ELSE IF ~includes(response.contentType, "text/html")
                    /\ ~includes(response.contentType, "application/xhtml")
                 THEN fpc' = "returned" /\ route' = "browser"
                 ELSE fpc' = "body" /\ route' = route
    /\ UNCHANGED <<fclock, response>>
    /\ FetchFrame

\* Lines 168, 187 and 193-195: fetch or response.text() rejects (network
\* error); the catch block returns null.  The timer is left as it is.
FetchError ==
    /\ fpc \in {"headers", "body"}
    /\ fpc' = "caught"
    /\ route' = "browser"
    /\ UNCHANGED <<ftimer, fclock, response>>
    /\ FetchFrame

\* Lines 187-192: the body has arrived; null for an SPA shell, otherwise the
\* html is returned.
FetchBody ==
    /\ fpc = "body"
    /\ fpc' = "returned"
    /\ route' = IF looksLikeSPA(html) THEN "browser" ELSE "static"
    /\ UNCHANGED <<ftimer, fclock, response>>
    /\ FetchFrame

\* ------------------------------------------------------------ initial state
\* The fields of BrowserPool and Scraper after construction.
InitFields ==
    /\ browser = 0
    /\ launches = 0
    /\ entries = <<>>
    /\ contexts = <<>>
    /\ available = <<>>
    /\ waiters = <<>>
    /\ nextContextId = 0
    /\ recycling = {}
    /\ unhandled = 0
    /\ ipc = [c \in Calls |-> "idle"]
    /\ iidx = [c \in Calls |-> 0]
    /\ spc = [k \in Calls |-> "idle"]
    /\ skind = [k \in Calls |-> "pool"]
    /\ svisited = [k \in Calls |-> {}]
    /\ route = "none"
    /\ fpc = "idle"
    /\ ftimer = "none"
    /\ fclock = 0
    /\ jpc = [j \in JobIds |-> "idle"]
    /\ jentry = [j \in JobIds |-> NoHandle]
    /\ held = [j \in JobIds |-> NoHandle]
    /\ rounds = [j \in JobIds |-> 0]
    /\ faults = 0
    /\ order = <<>>
    /\ lastHandle = <<>>
    /\ initialized = FALSE
    /\ qpending = 0
    /\ qqueue = <<>>
    /\ ckind = [c \in Calls |-> "none"]
    /\ curls = [c \in Calls |-> <<>>]
    /\ cpc = [c \in Calls |-> "none"]
    /\ cret = [c \in Calls |-> <<>>]
    /\ sresults = [c \in Calls |-> <<>>]
    /\ sdone = [c \in Calls |-> FALSE]
    /\ spending = [c \in Calls |-> 0]
    /\ yielded = [c \in Calls |-> <<>>]
    /\ jurl = [j \in JobIds |-> ""]
    /\ jprio = [j \in JobIds |-> 0]
    /\ jres = [j \in JobIds |-> NoResult]
    /\ jok = [j \in JobIds |-> FALSE]
    /\ now = 0
    /\ wake = [j \in JobIds |-> Never]
    /\ totalStart = [j \in JobIds |-> Never]
    /\ dispatched = [j \in JobIds |-> Never]
    /\ renderEnd = [j \in JobIds |-> Never]

\* ------------------------------------------------------------ Scraper
\* Job i of call c (newJobId gives every job an id of its own).
JobOf(c, i) == (c - 1) * JobsPerCall + i
CallOf(j) == ((j - 1) \div JobsPerCall) + 1
IndexOf(j) == ((j - 1) % JobsPerCall) + 1
JobsOf(c) == {JobOf(c, i) : i \in 1..Len(curls[c])}

\* `new URL(url).hostname` (lines 229-234): it throws for a string that is no
\* url.  A url other than those of hosts a and b is written as its host.
NotAUrl == "not a url"
HasHost(url) == url # NotAUrl
hostname(url) == IF url \in {"a/1", "a/2"} THEN "a"
                 ELSE IF url = "b/1" THEN "b" ELSE url

\* Lines 249-250: the table is pruned above 100 hosts, of entries older
\* than 60_000 ms.
PruneAbove == 100
StaleAfter == 60000

RecordNoPrune(table, host, t) == Put(table, host, t)

\* Lines 246-254: `domainLastRequest.set(hostname, Date.now())`, then the
\* pruning of stale entries.
Record(table, host, t) ==
    LET set == Put(table, host, t)
        cutoff == t - StaleAfter
    IN IF Cardinality(DOMAIN set) > PruneAbove
       THEN [h \in {g \in DOMAIN set : ~(set[g] < cutoff)} |-> set[h]]
       ELSE set

\* The ScrapeResult of a completed job (lines 300-311 and 426-437).
SuccessResult(j) == [id |-> j, url |-> jurl[j], error |-> FALSE]

\* emptyMetadata (lines 500-513), as far as results are compared: wordCount.
emptyMetadata(url) == [url |-> url, wordCount |-> 0]

\* The ScrapeResult of the fallbacks (lines 81-88 and 125-132).
ErrorResult(j) ==
    [id |-> j, url |-> jurl[j], error |-> TRUE, markdown |-> "",
     metadata |-> emptyMetadata(jurl[j]),
     timing |-> [total |-> 0, navigation |-> 0, extraction |-> 0,
                 conversion |-> 0]]

CatchResultZeroTotal(j) == ErrorResult(j)

\* The ScrapeResult of processJob's catch block (lines 441-461).
CatchResult(j) ==
    [id |-> j, url |-> jurl[j], error |-> TRUE, markdown |-> "",
     metadata |-> emptyMetadata(jurl[j]),
     timing |-> [total |-> now - totalStart[j], navigation |-> 0,
                 extraction |-> 0, conversion |-> 0]]

\* ---- PQueue({concurrency})
\* PriorityQueue.enqueue: before the first queued task of lower priority.
RECURSIVE Enqueue(_, _, _)
Enqueue(q, j, prio) ==
    IF q = <<>> \/ prio[Head(q)] < prio[j]
    THEN <<j>> \o q
    ELSE <<Head(q)>> \o Enqueue(Tail(q), j, prio)

\* queue.add for each of the jobs js in turn: enqueue, then start the head of
\* the queue while fewer than `concurrency` tasks run.
RECURSIVE QueueAddAll(_, _, _)
QueueAddAll(st, js, prio) ==
    IF js = <<>> THEN st
    ELSE LET q == Enqueue(st.queue, Head(js), prio) IN
         IF st.pending < concurrency
         THEN QueueAddAll([pending |-> st.pending + 1, queue |-> Tail(q),
                           started |-> Append(st.started, Head(q))], Tail(js), prio)
         ELSE QueueAddAll([st EXCEPT !.queue = q], Tail(js), prio)

QueueNextSerial ==
    IF qqueue # <<>> /\ qpending = 1
    THEN [pending |-> qpending, queue |-> Tail(qqueue), started |-> <<Head(qqueue)>>]
    ELSE [pending |-> qpending - 1, queue |-> qqueue, started |-> <<>>]

\* A task of the queue has settled: its slot goes to the head of the queue.
QueueNext ==
    IF qqueue # <<>>
    THEN [pending |-> qpending, queue |-> Tail(qqueue), started |-> <<Head(qqueue)>>]
    ELSE [pending |-> qpending - 1, queue |-> qqueue, started |-> <<>>]

\* scrapeStream's notify(): resume the consumer if it is suspended on `resolve`.
Notify(c, pcs) == [pcs EXCEPT ![c] = IF pcs[c] = "wait" THEN "woken" ELSE pcs[c]]

StreamStepDrop(c, res, dn, pcs) ==
    IF res # <<>>
    THEN /\ yielded' = [yielded EXCEPT ![c] = Append(@, Head(res))]
         /\ sresults' = [sresults EXCEPT ![c] = <<>>]
         /\ cpc' = [pcs EXCEPT ![c] = "yielded"]
    ELSE /\ cpc' = [pcs EXCEPT ![c] = IF dn THEN "ended" ELSE "wait"]
         /\ sresults' = [sresults EXCEPT ![c] = res]
         /\ UNCHANGED yielded

\* One pass of scrapeStream's while loop (lines 144-153) over the buffer res
\* and the flag dn, up to the next yield, await or the end.
StreamStep(c, res, dn, pcs) ==
    IF res # <<>>
    THEN /\ yielded' = [yielded EXCEPT ![c] = Append(@, Head(res))]
         /\ sresults' = [sresults EXCEPT ![c] = Tail(res)]
         /\ cpc' = [pcs EXCEPT ![c] = "yielded"]
    ELSE /\ cpc' = [pcs EXCEPT ![c] = IF dn THEN "ended" ELSE "wait"]
         /\ sresults' = [sresults EXCEPT ![c] = res]
         /\ UNCHANGED yielded

\* ---- processJob up to its first suspension
\* Lines 257-264 and 226-254: processJob runs into throttleDomain, which
\* either returns at once (untouched when pacing is off or the url has no
\* host, else recording the time and pruning the table) or starts a
\* setTimeout for the rest of the delay.  st holds the pacing table and the
\* positions, timers and dispatch times of the jobs.
throttleDomainSkipWait(st, j, url) ==
    LET host == hostname(url)
        known == host \in DOMAIN st.table
        elapsed == now - st.table[host]
    IN IF perDomainDelayMs <= 0 \/ ~HasHost(url)
       THEN [st EXCEPT !.pcs[j] = "throttled", !.disp[j] = now]
       ELSE IF known /\ elapsed < perDomainDelayMs
       THEN [st EXCEPT !.pcs[j] = "fetch"]
       ELSE [st EXCEPT !.pcs[j] = "throttled",
                       !.table = Record(@, host, now),
                       !.disp[j] = now]

throttleDomainAlways(st, j, url) ==
    LET host == hostname(url)
        known == host \in DOMAIN st.table
        elapsed == now - st.table[host]
    IN IF known /\ elapsed < perDomainDelayMs
       THEN [st EXCEPT !.pcs[j] = "sleeping",
                       !.wake[j] = now + (perDomainDelayMs - elapsed)]
       ELSE [st EXCEPT !.pcs[j] = "throttled",
                       !.table = Record(@, host, now),
                       !.disp[j] = now]

throttleDomain(st, j, url) ==
    LET host == hostname(url)
        known == host \in DOMAIN st.table
        elapsed == now - st.table[host]
    IN IF perDomainDelayMs <= 0 \/ ~HasHost(url)
       THEN [st EXCEPT !.pcs[j] = "throttled", !.disp[j] = now]
       ELSE IF known /\ elapsed < perDomainDelayMs
       THEN [st EXCEPT !.pcs[j] = "sleeping",
                       !.wake[j] = now + (perDomainDelayMs - elapsed)]
       ELSE [st EXCEPT !.pcs[j] = "throttled",
                       !.table = Record(@, host, now),
                       !.disp[j] = now]

RECURSIVE StartAll(_, _, _)
StartAll(st, js, urls) ==
    IF js = <<>> THEN st
    ELSE StartAll(throttleDomain(st, Head(js), urls[Head(js)]), Tail(js), urls)

\* processJob is called for the jobs js in turn, each running to its first
\* suspension; pcs are the positions before, urls the urls of the jobs.
Starts(pcs, js, urls) ==
    LET st == StartAll([table |-> domainLastRequest, pcs |-> pcs, wake |-> wake,
                        disp |-> dispatched], js, urls)
    IN /\ jpc' = st.pcs
       /\ domainLastRequest' = st.table
       /\ wake' = st.wake
       /\ totalStart' = [j \in JobIds |-> IF j \in Range(js) THEN now
                                                            ELSE totalStart[j]]
       /\ dispatched' = st.disp
       /\ UNCHANGED renderEnd

\* Lines 242-254: the setTimeout fired; the table gets the time of waking
\* and is pruned.
ThrottleWake(j) ==
    /\ jpc[j] = "sleeping"
    /\ now >= wake[j]
    /\ domainLastRequest' = Record(domainLastRequest, hostname(jurl[j]), now)
    /\ dispatched' = [dispatched EXCEPT ![j] = now]
    /\ jpc' = [jpc EXCEPT ![j] = "throttled"]
    /\ UNCHANGED <<cfgVars, shutVars, spaVars, poolVars, initVars, jentry, held, rounds, faults,
                   histVars, scraperVars, now, wake, totalStart, renderEnd>>

\* ---- the public operations
UrlLists(n) == UNION {[1..k -> Urls] : k \in 0..n}

\* scrape / scrapeMany / scrapeStream up to `await this.initialize()`
\* (lines 31-35): a call that finds initialized false starts pool.initialize.
CallStart(c, kind, urls) ==
    /\ cpc[c] = "none"
    /\ \A d \in Calls : d < c => cpc[d] # "none"
    /\ ckind' = [ckind EXCEPT ![c] = kind]
    /\ curls' = [curls EXCEPT ![c] = urls]
    /\ IF initialized
       THEN /\ cpc' = [cpc EXCEPT ![c] = "inited"]
            /\ UNCHANGED ipc
       ELSE /\ cpc' = [cpc EXCEPT ![c] = "init"]
            /\ ipc' = [ipc EXCEPT ![c] = "launch"]
    /\ UNCHANGED <<cfgVars, shutVars, spaVars, poolVars, iidx, jobVars, faults, histVars, initialized,
                   queueVars, cret, sresults, sdone, spending, yielded, jurl, jprio,
                   jres, jok, throttleVars>>

\* Line 34, after pool.initialize resolved.
CallInitDone(c) ==
    /\ cpc[c] = "init"
    /\ ipc[c] = "done"
    /\ initialized' = TRUE
    /\ cpc' = [cpc EXCEPT ![c] = "inited"]
    /\ UNCHANGED <<cfgVars, shutVars, spaVars, poolVars, initVars, jobVars, faults, histVars,
                   queueVars, ckind, curls, cret, sresults, sdone, spending,
                   yielded, jurl, jprio, jres, jok, throttleVars>>

\* pool.initialize rejected: so does the call.
CallInitFailed(c) ==
    /\ cpc[c] = "init"
    /\ ipc[c] = "failed"
    /\ cpc' = [cpc EXCEPT ![c] = "rejected"]
    /\ UNCHANGED <<cfgVars, shutVars, spaVars, poolVars, initVars, jobVars, faults, histVars,
                   initialized, queueVars, ckind, curls, cret, sresults, sdone,
                   spending, yielded, jurl, jprio, jres, jok, throttleVars>>

\* Lines 43-49: scrape calls processJob itself.
ScrapeSubmit(c) ==
    /\ cpc[c] = "inited"
    /\ ckind[c] = "scrape"
    /\ jurl' = [jurl EXCEPT ![JobOf(c, 1)] = curls[c][1]]
    /\ Starts(jpc, <<JobOf(c, 1)>>, jurl')
    /\ cpc' = [cpc EXCEPT ![c] = "awaiting"]
    /\ UNCHANGED <<cfgVars, shutVars, spaVars, poolVars, initVars, jentry, held, rounds, faults,
                   histVars, initialized, queueVars, ckind, curls, cret, sresults,
                   sdone, spending, yielded, jprio, jres, jok, now>>

\* The jobs of call c, in input order, and the state of the queue after
\* queue.add of each of them with the priorities prio.
JobSeq(c) == [i \in 1..Len(curls[c]) |-> JobOf(c, i)]
Submitted(c, prio) ==
    QueueAddAll([pending |-> qpending, queue |-> qqueue, started |-> <<>>],
                JobSeq(c), prio)

\* The priority scrapeMany gives job i (line 62: the 0-based input index).
ManyPriority(j) == IndexOf(j) - 1

\* Lines 59-72: scrapeMany creates the jobs and adds them to the queue.
ManySubmit(c) ==
    /\ cpc[c] = "inited"
    /\ ckind[c] = "many"
    /\ jurl' = [j \in JobIds |-> IF j \in JobsOf(c) THEN curls[c][IndexOf(j)]
                                                     ELSE jurl[j]]
    /\ LET prio == [j \in JobIds |-> IF j \in JobsOf(c) THEN ManyPriority(j)
                                                       ELSE jprio[j]]
           st == Submitted(c, prio)
       IN /\ jprio' = prio
          /\ qpending' = st.pending
          /\ qqueue' = st.queue
          /\ Starts([j \in JobIds |-> IF j \in JobsOf(c) THEN "queued" ELSE jpc[j]],
                    st.started, jurl')
    /\ cpc' = [cpc EXCEPT ![c] = "awaiting"]
    /\ UNCHANGED <<cfgVars, shutVars, spaVars, poolVars, initVars, jentry, held, rounds, faults,
                   histVars, initialized, ckind, curls, cret, sresults, sdone,
                   spending, yielded, jres, jok, now>>

\* Lines 102-153 up to the first suspension of the generator: the jobs are
\* added to the queue and the while loop runs its first pass.
StreamSubmit(c) ==
    /\ cpc[c] = "inited"
    /\ ckind[c] = "stream"
    /\ jurl' = [j \in JobIds |-> IF j \in JobsOf(c) THEN curls[c][IndexOf(j)]
                                                     ELSE jurl[j]]
    /\ LET prio == [j \in JobIds |-> IF j \in JobsOf(c) THEN 0 ELSE jprio[j]]
           st == Submitted(c, prio)
       IN /\ jprio' = prio
          /\ qpending' = st.pending
          /\ qqueue' = st.queue
          /\ Starts([j \in JobIds |-> IF j \in JobsOf(c) THEN "queued" ELSE jpc[j]],
                    st.started, jurl')
    /\ spending' = [spending EXCEPT ![c] = Len(curls[c])]
    /\ sdone' = [sdone EXCEPT ![c] = FALSE]
    /\ StreamStep(c, <<>>, FALSE, cpc)
    /\ UNCHANGED <<cfgVars, shutVars, spaVars, poolVars, initVars, jentry, held, rounds, faults,
                   histVars, initialized, ckind, curls, cret, jres, jok, now>>

\* ---- processJob after the pacing wait
\* Time passes.
Tick ==
    /\ now < MaxTime
    /\ now' = now + 1
    /\ UNCHANGED <<cfgVars, shutVars, spaVars, poolVars, initVars, jobVars, faults, histVars,
                   scraperVars, domainLastRequest, wake, totalStart,
                   dispatched, renderEnd>>

JobThrottledSkipOnly(j) ==
    /\ jpc[j] = "throttled"
    /\ IF skipStaticDetection
       THEN acquire(j) /\ AcquireFrame /\ UNCHANGED <<scraperVars, throttleVars>>
       ELSE /\ jpc' = [jpc EXCEPT ![j] = "fetch"]
            /\ UNCHANGED <<cfgVars, shutVars, spaVars, poolVars, initVars, jentry, held, faults,
                           histVars, scraperVars, throttleVars>>
    /\ UNCHANGED rounds

\* Lines 266-268 and 317: after the pacing wait, issue the plain fetch, or go
\* straight to the pool when the fast path is switched off or a
\* pre-extraction script is configured.
JobThrottled(j) ==
    /\ jpc[j] = "throttled"
    /\ IF skipStaticDetection \/ preExtractScript
       THEN acquire(j) /\ AcquireFrame /\ UNCHANGED <<scraperVars, throttleVars>>
       ELSE /\ jpc' = [jpc EXCEPT ![j] = "fetch"]
            /\ UNCHANGED <<cfgVars, shutVars, spaVars, poolVars, initVars, jentry, held, faults,
                           histVars, scraperVars, throttleVars>>
    /\ UNCHANGED rounds

\* The same, with a static hit that takes an idle entry from the pool.
JobStaticFetchViaPool(j) ==
    /\ jpc[j] = "fetch"
    /\ \/ /\ jpc' = [jpc EXCEPT ![j] = "pjResolved"]
          /\ jres' = [jres EXCEPT ![j] = SuccessResult(j)]
          /\ available' = IF available = <<>> THEN available ELSE Front(available)
          /\ UNCHANGED <<cfgVars, shutVars, spaVars, browser, launches, entries,
                         contexts, waiters, nextContextId, recycling, unhandled,
                         initVars, jentry, held, faults,
                         histVars, initialized, queueVars, callVars, jurl, jprio,
                         jok, throttleVars>>
       \/ /\ faults < MaxFaults
          /\ faults' = faults + 1
          /\ jpc' = [jpc EXCEPT ![j] = "pjRejected"]
          /\ UNCHANGED <<cfgVars, shutVars, spaVars, poolVars, initVars, jentry, held, histVars,
                         scraperVars, throttleVars>>
       \/ acquire(j) /\ AcquireFrame /\ UNCHANGED <<scraperVars, throttleVars>>
    /\ UNCHANGED rounds

\* Lines 268-317: tryStaticFetch returned. A hit is extracted and converted
\* outside any try block; a miss (null) calls pool.acquire.
JobStaticFetch(j) ==
    /\ jpc[j] = "fetch"
    /\ \/ /\ jpc' = [jpc EXCEPT ![j] = "pjResolved"]
          /\ jres' = [jres EXCEPT ![j] = SuccessResult(j)]
          /\ UNCHANGED <<cfgVars, shutVars, spaVars, poolVars, initVars, jentry, held, faults,
                         histVars, initialized, queueVars, callVars, jurl, jprio,
                         jok, throttleVars>>
       \/ /\ faults < MaxFaults
          /\ faults' = faults + 1
          /\ jpc' = [jpc EXCEPT ![j] = "pjRejected"]
          /\ UNCHANGED <<cfgVars, shutVars, spaVars, poolVars, initVars, jentry, held, histVars,
                         scraperVars, throttleVars>>
       \/ acquire(j) /\ AcquireFrame /\ UNCHANGED <<scraperVars, throttleVars>>
    /\ UNCHANGED rounds

JobNewPageNoRelease(j) ==
    /\ jpc[j] = "acquired"
    /\ \/ /\ jpc' = [jpc EXCEPT ![j] = "render"]
          /\ renderEnd' = [renderEnd EXCEPT ![j] = now + renderMs[IndexOf(j)]]
          /\ UNCHANGED <<poolVars, held, faults, histVars, jres>>
       \/ /\ faults < MaxFaults
          /\ faults' = faults + 1
          /\ jres' = [jres EXCEPT ![j] = CatchResult(j)]
          /\ jpc' = [jpc EXCEPT ![j] = "pjResolved"]
          /\ held' = [held EXCEPT ![j] = NoHandle]
          /\ UNCHANGED <<poolVars, histVars, renderEnd>>
    /\ UNCHANGED <<cfgVars, shutVars, spaVars, initVars, jentry, rounds, initialized, queueVars,
                   callVars, jurl, jprio, jok, now, domainLastRequest, wake, totalStart,
                   dispatched>>

\* Lines 320 and 441-464: `await ctx.newPage()`.  For an error raised inside
\* the outer try, the catch block builds the error result and the finally
\* block releases the context.
JobNewPage(j) ==
    /\ jpc[j] = "acquired"
    /\ \/ /\ jpc' = [jpc EXCEPT ![j] = "render"]
          /\ renderEnd' = [renderEnd EXCEPT ![j] = now + renderMs[IndexOf(j)]]
          /\ UNCHANGED <<poolVars, held, faults, histVars, jres>>
       \/ /\ faults < MaxFaults
          /\ faults' = faults + 1
          /\ jres' = [jres EXCEPT ![j] = CatchResult(j)]
          /\ release(held[j], [jpc EXCEPT ![j] = "pjResolved"],
                     [held EXCEPT ![j] = NoHandle])
          /\ UNCHANGED <<browser, launches, contexts, nextContextId, unhandled,
                         order, renderEnd>>
    /\ UNCHANGED <<cfgVars, shutVars, spaVars, initVars, jentry, rounds, initialized, queueVars,
                   callVars, jurl, jprio, jok, now, domainLastRequest, wake, totalStart,
                   dispatched>>

\* Lines 322-437: navigation, waits, scripts, extraction and conversion.
JobRender(j) ==
    /\ jpc[j] = "render"
    /\ \/ /\ jok' = [jok EXCEPT ![j] = TRUE]
          /\ UNCHANGED faults
       \/ /\ faults < MaxFaults
          /\ faults' = faults + 1
          /\ jok' = [jok EXCEPT ![j] = FALSE]
    /\ jpc' = [jpc EXCEPT ![j] = "pageClose"]
    /\ UNCHANGED <<cfgVars, shutVars, spaVars, poolVars, initVars, jentry, held, rounds, histVars,
                   initialized, queueVars, callVars, jurl, jprio, jres,
                   throttleVars>>

\* Lines 438-464: `await page.close()`, then the result or the catch block,
\* then `this.pool.release(ctx)`.
JobPageClose(j) ==
    /\ jpc[j] = "pageClose"
    /\ \/ /\ jres' = [jres EXCEPT ![j] =
                        IF jok[j] THEN SuccessResult(j) ELSE CatchResult(j)]
          /\ UNCHANGED faults
       \/ /\ faults < MaxFaults
          /\ faults' = faults + 1
          /\ jres' = [jres EXCEPT ![j] = CatchResult(j)]
    /\ release(held[j], [jpc EXCEPT ![j] = "pjResolved"],
               [held EXCEPT ![j] = NoHandle])
    /\ UNCHANGED <<cfgVars, shutVars, spaVars, browser, launches, contexts, nextContextId, unhandled,
                   initVars, jentry, rounds, order, initialized,
                   queueVars, callVars, jurl, jprio, jok, throttleVars>>

\* ---- what awaits processJob
ProcessJobSettled(j) == jpc[j] \in {"pjResolved", "pjRejected", "acqRejected"}
Outcome(j) == IF jpc[j] = "pjResolved" THEN "fulfilled" ELSE "rejected"

\* Line 49: the promise of scrape is the promise of processJob.
ScrapeSettled(j) ==
    /\ ProcessJobSettled(j)
    /\ ckind[CallOf(j)] = "scrape"
    /\ jpc' = [jpc EXCEPT ![j] = Outcome(j)]
    /\ cpc' = [cpc EXCEPT ![CallOf(j)] =
                  IF jpc[j] = "pjResolved" THEN "resolved" ELSE "rejected"]
    /\ cret' = [cret EXCEPT ![CallOf(j)] =
                  IF jpc[j] = "pjResolved" THEN <<jres[j]>> ELSE <<>>]
    /\ UNCHANGED <<cfgVars, shutVars, spaVars, poolVars, initVars, jentry, held, rounds, faults,
                   histVars, initialized, queueVars, ckind, curls, sresults, sdone,
                   spending, yielded, jurl, jprio, jres, jok, throttleVars>>

\* Lines 66-70: the task of scrapeMany settles and frees its queue slot.
ManySettled(j) ==
    /\ ProcessJobSettled(j)
    /\ ckind[CallOf(j)] = "many"
    /\ qpending' = QueueNext.pending
    /\ qqueue' = QueueNext.queue
    /\ Starts([jpc EXCEPT ![j] = Outcome(j)], QueueNext.started, jurl)
    /\ UNCHANGED <<cfgVars, shutVars, spaVars, poolVars, initVars, jentry, held, rounds, faults,
                   histVars, initialized, callVars, jurl, jprio, jres, jok, now>>

ManyResultReversed(c, i) ==
    LET k == Len(curls[c]) + 1 - i IN
    IF jpc[JobOf(c, k)] = "fulfilled" THEN jres[JobOf(c, k)]
                                      ELSE ErrorResult(JobOf(c, k))

\* The i-th element of the array scrapeMany returns (lines 74-89).
ManyResult(c, i) ==
    IF jpc[JobOf(c, i)] = "fulfilled" THEN jres[JobOf(c, i)]
                                      ELSE ErrorResult(JobOf(c, i))

\* Lines 72-89: Promise.allSettled resolved; scrapeMany returns.
ManyReturn(c) ==
    /\ cpc[c] = "awaiting"
    /\ ckind[c] = "many"
    /\ \A j \in JobsOf(c) : jpc[j] \in {"fulfilled", "rejected"}
    /\ cret' = [cret EXCEPT ![c] = [i \in 1..Len(curls[c]) |-> ManyResult(c, i)]]
    /\ cpc' = [cpc EXCEPT ![c] = "resolved"]
    /\ UNCHANGED <<cfgVars, shutVars, spaVars, poolVars, initVars, jobVars, faults, histVars,
                   initialized, queueVars, ckind, curls, sresults, sdone, spending,
                   yielded, jurl, jprio, jres, jok, throttleVars>>

PushResultFront(j) == <<jres[j]>> \o sresults[CallOf(j)]

\* The buffer after the task of job j pushed its result (line 120).
PushResult(j) == Append(sresults[CallOf(j)], jres[j])

\* Lines 118-123: the task of scrapeStream continues after processJob: a
\* result is pushed and the consumer notified; a rejection goes to `.catch`.
StreamSettled(j) ==
    /\ ProcessJobSettled(j)
    /\ ckind[CallOf(j)] = "stream"
    /\ qpending' = QueueNext.pending
    /\ qqueue' = QueueNext.queue
    /\ Starts([jpc EXCEPT ![j] = IF jpc[j] = "pjResolved" THEN "finally"
                                                            ELSE "catch"],
              QueueNext.started, jurl)
    /\ IF jpc[j] = "pjResolved"
       THEN /\ sresults' = [sresults EXCEPT ![CallOf(j)] = PushResult(j)]
            /\ cpc' = Notify(CallOf(j), cpc)
       ELSE UNCHANGED <<sresults, cpc>>
    /\ UNCHANGED <<cfgVars, shutVars, spaVars, poolVars, initVars, jentry, held, rounds, faults,
                   histVars, initialized, ckind, curls, cret, sdone, spending,
                   yielded, jurl, jprio, jres, jok, now>>

\* Lines 124-134: the `.catch` callback pushes an error result.
StreamCatch(j) ==
    /\ jpc[j] = "catch"
    /\ sresults' = [sresults EXCEPT ![CallOf(j)] = Append(@, ErrorResult(j))]
    /\ cpc' = Notify(CallOf(j), cpc)
    /\ jpc' = [jpc EXCEPT ![j] = "finally"]
    /\ UNCHANGED <<cfgVars, shutVars, spaVars, poolVars, initVars, jentry, held, rounds, faults,
                   histVars, initialized, queueVars, ckind, curls, cret, sdone,
                   spending, yielded, jurl, jprio, jres, jok, throttleVars>>

\* Lines 135-141: the `.finally` callback counts the job down.
StreamFinally(j) ==
    /\ jpc[j] = "finally"
    /\ spending' = [spending EXCEPT ![CallOf(j)] = @ - 1]
    /\ IF spending[CallOf(j)] - 1 = 0
       THEN /\ sdone' = [sdone EXCEPT ![CallOf(j)] = TRUE]
            /\ cpc' = Notify(CallOf(j), cpc)
       ELSE UNCHANGED <<sdone, cpc>>
    /\ jpc' = [jpc EXCEPT ![j] = "settled"]
    /\ UNCHANGED <<cfgVars, shutVars, spaVars, poolVars, initVars, jentry, held, rounds, faults,
                   histVars, initialized, queueVars, ckind, curls, cret, sresults,
                   yielded, jurl, jprio, jres, jok, throttleVars>>

\* Lines 144-153: the generator continues after its await, or after the
\* consumer asked for the next result.
StreamResume(c) ==
    /\ cpc[c] \in {"woken", "yielded"}
    /\ StreamStep(c, sresults[c], sdone[c], cpc)
    /\ UNCHANGED <<cfgVars, shutVars, spaVars, poolVars, initVars, jobVars, faults, histVars,
                   initialized, queueVars, ckind, curls, cret, sdone, spending,
                   jurl, jprio, jres, jok, throttleVars>>

\* ------------------------------------------------------------ Spec
\* The Scraper after construction, with pacing switched off.
Init ==
    /\ InitFields
    /\ html = <<>>
    /\ response = NoResponse
    /\ domainLastRequest = <<>>
    /\ renderMs = UnitRender
    /\ concurrency \in 1..MaxConcurrency
    /\ contextMaxUses = 0
    /\ skipStaticDetection = FALSE
    /\ preExtractScript = FALSE
    /\ perDomainDelayMs = 0

JobsSoFar == Cardinality(UNION {JobsOf(c) : c \in Calls})
WithinJobs(urls) == JobsSoFar + Len(urls) <= MaxJobs

\* The url lists of Spec: up to n times the same url.
SameUrl(n) == {[i \in 1..k |-> "a/1"] : k \in 0..n}

ScrapeCall(c, url) == WithinJobs(<<url>>) /\ CallStart(c, "scrape", <<url>>)
ManyCall(c, urls) == WithinJobs(urls) /\ CallStart(c, "many", urls)
StreamCall(c, urls) == WithinJobs(urls) /\ CallStart(c, "stream", urls)

Next ==
    \/ \E c \in Calls : ScrapeCall(c, "a/1")
    \/ \E c \in Calls, us \in SameUrl(MaxUrls) : ManyCall(c, us)
    \/ \E c \in Calls, us \in SameUrl(MaxUrls) : StreamCall(c, us)
    \/ \E c \in Calls : PoolLaunch(c)
    \/ \E c \in Calls : PoolCreate(c)
    \/ \E c \in Calls : CallInitDone(c)
    \/ \E c \in Calls : CallInitFailed(c)
    \/ \E c \in Calls : ScrapeSubmit(c)
    \/ \E c \in Calls : ManySubmit(c)
    \/ \E c \in Calls : StreamSubmit(c)
    \/ \E j \in JobIds : JobThrottled(j)
    \/ \E j \in JobIds : JobStaticFetch(j)
    \/ \E j \in JobIds : AcquireProbe(j)
    \/ \E j \in JobIds : AcquireRecycleClose(j)
    \/ \E j \in JobIds : AcquireRecycleCreate(j)
    \/ \E j \in JobIds : AcquireFresh(j)
    \/ \E j \in JobIds : AcquireResume(j)
    \/ \E j \in JobIds : JobNewPage(j)
    \/ \E j \in JobIds : JobRender(j)
    \/ \E j \in JobIds : JobPageClose(j)
    \/ \E j \in JobIds : ScrapeSettled(j)
    \/ \E j \in JobIds : ManySettled(j)
    \/ \E j \in JobIds : StreamSettled(j)
    \/ \E j \in JobIds : StreamCatch(j)
    \/ \E j \in JobIds : StreamFinally(j)
    \/ \E c \in Calls : ManyReturn(c)
    \/ \E c \in Calls : StreamResume(c)

Spec == Init /\ [][Next]_vars

\* ------------------------------------------------------------ SpecBatch
\* One scrapeMany or scrapeStream call on a fresh Scraper, over every url list
\* of up to MaxUrls urls, with and without context recycling.
InitBatch ==
    /\ InitFields
    /\ html = <<>>
    /\ response = NoResponse
    /\ domainLastRequest = <<>>
    /\ renderMs = UnitRender
    /\ concurrency \in 1..MaxConcurrency
    /\ contextMaxUses \in {0, 1}
    /\ skipStaticDetection = FALSE
    /\ preExtractScript = FALSE
    /\ perDomainDelayMs = 0

BatchMany(urls) == CallStart(1, "many", urls)
BatchStream(urls) == CallStart(1, "stream", urls)

NextBatch ==
    \/ \E us \in UrlLists(MaxUrls) : BatchMany(us)
    \/ \E us \in UrlLists(MaxUrls) : BatchStream(us)
    \/ PoolLaunch(1)
    \/ PoolCreate(1)
    \/ CallInitDone(1)
    \/ CallInitFailed(1)
    \/ ManySubmit(1)
    \/ StreamSubmit(1)
    \/ \E j \in JobIds : JobThrottled(j)
    \/ \E j \in JobIds : JobStaticFetch(j)
    \/ \E j \in JobIds : AcquireProbe(j)
    \/ \E j \in JobIds : AcquireRecycleClose(j)
    \/ \E j \in JobIds : AcquireRecycleCreate(j)
    \/ \E j \in JobIds : AcquireFresh(j)
    \/ \E j \in JobIds : AcquireResume(j)
    \/ \E j \in JobIds : JobNewPage(j)
    \/ \E j \in JobIds : JobRender(j)
    \/ \E j \in JobIds : JobPageClose(j)
    \/ \E t \in recycling : RecycleClose(t)
    \/ \E t \in recycling : RecycleCreate(t)
    \/ \E t \in recycling : RecycleThen(t)
    \/ \E j \in JobIds : ManySettled(j)
    \/ \E j \in JobIds : StreamSettled(j)
    \/ \E j \in JobIds : StreamCatch(j)
    \/ \E j \in JobIds : StreamFinally(j)
    \/ ManyReturn(1)
    \/ StreamResume(1)

SpecBatch == InitBatch /\ [][NextBatch]_vars

\* The same with progress: the event loop runs every continuation that is
\* ready, and every external operation eventually returns or fails.
SpecBatchLive == SpecBatch /\ WF_vars(NextBatch)

\* ------------------------------------------------------------ SpecRoute
\* One scrapeMany or scrapeStream call under each setting of the two options
\* that switch the static fast path off.
InitRoute ==
    /\ InitFields
    /\ html = <<>>
    /\ response = NoResponse
    /\ domainLastRequest = <<>>
    /\ renderMs = UnitRender
    /\ concurrency \in 1..MaxConcurrency
    /\ contextMaxUses = 1
    /\ skipStaticDetection \in BOOLEAN
    /\ preExtractScript \in BOOLEAN
    /\ perDomainDelayMs = 0

SpecRoute == InitRoute /\ [][NextBatch]_vars

\* ------------------------------------------------------------ SpecStream
\* One scrapeStream call under the scheduling of the JavaScript event loop:
\* promise continuations (microtasks) run to completion before the next I/O
\* completion or timer callback is delivered.  The consumer asks for the next
\* result whenever it likes.
InitStream ==
    /\ InitFields
    /\ html = <<>>
    /\ response = NoResponse
    /\ domainLastRequest = <<>>
    /\ renderMs = UnitRender
    /\ concurrency = MaxConcurrency
    /\ contextMaxUses = 1
    /\ skipStaticDetection = FALSE
    /\ preExtractScript = FALSE
    /\ perDomainDelayMs = 0

MicroStep ==
    \/ CallInitDone(1)
    \/ CallInitFailed(1)
    \/ StreamSubmit(1)
    \/ \E j \in JobIds : JobThrottled(j)
    \/ \E j \in JobIds : AcquireFresh(j)
    \/ \E j \in JobIds : AcquireResume(j)
    \/ \E t \in recycling : RecycleThen(t)
    \/ \E j \in JobIds : StreamSettled(j)
    \/ \E j \in JobIds : StreamCatch(j)
    \/ \E j \in JobIds : StreamFinally(j)
    \/ cpc[1] = "woken" /\ StreamResume(1)

\* A continuation is ready to run (MicroStep is enabled).
MicroPending ==
    \/ cpc[1] = "init" /\ ipc[1] \in {"done", "failed"}
    \/ cpc[1] = "inited" /\ ckind[1] = "stream"
    \/ cpc[1] = "woken"
    \/ \E j \in JobIds : jpc[j] \in {"throttled", "acqFresh", "resumed", "catch",
                                      "finally"}
    \/ \E j \in JobIds : ProcessJobSettled(j) /\ ckind[CallOf(j)] = "stream"
    \/ \E t \in recycling : t.stage = "then"

\* Step A, delivered once no continuation is left to run.
Quiet(A) == ~MicroPending /\ A

MacroStep ==
    \/ \E us \in SameUrl(MaxStreamUrls) : Quiet(BatchStream(us))
    \/ Quiet(PoolLaunch(1))
    \/ Quiet(PoolCreate(1))
    \/ \E j \in JobIds : Quiet(JobStaticFetch(j))
    \/ \E j \in JobIds : Quiet(AcquireProbe(j))
    \/ \E j \in JobIds : Quiet(AcquireRecycleClose(j))
    \/ \E j \in JobIds : Quiet(AcquireRecycleCreate(j))
    \/ \E j \in JobIds : Quiet(JobNewPage(j))
    \/ \E j \in JobIds : Quiet(JobRender(j))
    \/ \E j \in JobIds : Quiet(JobPageClose(j))
    \/ \E t \in recycling : Quiet(RecycleClose(t))
    \/ \E t \in recycling : Quiet(RecycleCreate(t))

ConsumerPull == Quiet(cpc[1] = "yielded" /\ StreamResume(1))

NextStream == MicroStep \/ MacroStep \/ ConsumerPull

SpecStream == InitStream /\ [][NextStream]_vars

\* The same with progress: the event loop runs what is ready, external
\* operations return or fail, and the consumer keeps asking.
SpecStreamLive == SpecStream /\ WF_vars(NextStream)

\* ------------------------------------------------------------ SpecTimed
\* The timing scenario: pool size and concurrency 2, one scrapeMany call of
\* three urls on the browser path, no failures.  The render of the i-th job
\* takes renderMs[i] time units and every other step takes no time: the
\* clock advances only when nothing else can happen.
InitTimed ==
    /\ InitFields
    /\ html = <<>>
    /\ response = NoResponse
    /\ domainLastRequest = <<>>
    /\ renderMs \in [1..JobsPerCall -> 1..MaxRender]
    /\ concurrency = 2
    /\ contextMaxUses = 0
    /\ skipStaticDetection = TRUE
    /\ preExtractScript = FALSE
    /\ perDomainDelayMs = 0

ScenarioUrls == <<"a/1", "a/1", "a/1">>

RenderDone(j) == now >= renderEnd[j] /\ JobRender(j)

\* Step A with no failure injected.
NoFault(A) == A /\ faults' = faults

UrgentStep ==
    \/ NoFault(BatchMany(ScenarioUrls))
    \/ NoFault(PoolLaunch(1))
    \/ NoFault(PoolCreate(1))
    \/ NoFault(CallInitDone(1))
    \/ NoFault(ManySubmit(1))
    \/ \E j \in JobIds : NoFault(JobThrottled(j))
    \/ \E j \in JobIds : NoFault(AcquireProbe(j))
    \/ \E j \in JobIds : NoFault(JobNewPage(j))
    \/ \E j \in JobIds : NoFault(RenderDone(j))
    \/ \E j \in JobIds : NoFault(JobPageClose(j))
    \/ \E j \in JobIds : NoFault(ManySettled(j))
    \/ NoFault(ManyReturn(1))

TimedTick == ~ENABLED UrgentStep /\ Tick

NextTimed == UrgentStep \/ TimedTick

SpecTimed == InitTimed /\ [][NextTimed]_vars

\* ------------------------------------------------------------ SpecQueue
\* scrapeMany calls of MaxUrls urls each on a Scraper of concurrency 1, so
\* that jobs have to wait in the queue.
InitQueue ==
    /\ InitFields
    /\ html = <<>>
    /\ response = NoResponse
    /\ domainLastRequest = <<>>
    /\ renderMs = UnitRender
    /\ concurrency = 1
    /\ contextMaxUses = 0
    /\ skipStaticDetection = FALSE
    /\ preExtractScript = FALSE
    /\ perDomainDelayMs = 0

FullList == [i \in 1..MaxUrls |-> "a/1"]

NextQueue ==
    \/ \E c \in Calls : CallStart(c, "many", FullList)
    \/ \E c \in Calls : PoolLaunch(c)
    \/ \E c \in Calls : PoolCreate(c)
    \/ \E c \in Calls : CallInitDone(c)
    \/ \E c \in Calls : CallInitFailed(c)
    \/ \E c \in Calls : ManySubmit(c)
    \/ \E j \in JobIds : JobThrottled(j)
    \/ \E j \in JobIds : JobStaticFetch(j)
    \/ \E j \in JobIds : AcquireProbe(j)
    \/ \E j \in JobIds : AcquireRecycleClose(j)
    \/ \E j \in JobIds : AcquireRecycleCreate(j)
    \/ \E j \in JobIds : AcquireFresh(j)
    \/ \E j \in JobIds : JobNewPage(j)
    \/ \E j \in JobIds : JobRender(j)
    \/ \E j \in JobIds : JobPageClose(j)
    \/ \E j \in JobIds : ManySettled(j)
    \/ \E c \in Calls : ManyReturn(c)

SpecQueue == InitQueue /\ [][NextQueue]_vars

\* ------------------------------------------------------------ SpecPool
\* The pool driven directly: one initialize, then callers that each release
\* exactly the handle they acquired, exactly once.
Callers == 1..MaxCallers

InitPool ==
    /\ InitFields
    /\ html = <<>>
    /\ response = NoResponse
    /\ domainLastRequest = <<>>
    /\ renderMs = UnitRender
    /\ concurrency \in 1..MaxConcurrency
    /\ contextMaxUses \in 0..MaxUses
    /\ skipStaticDetection = FALSE
    /\ preExtractScript = FALSE
    /\ perDomainDelayMs = 0

OwnerInitialize == PoolInitialize(1)
OwnerLaunch == PoolLaunch(1)
OwnerCreate == PoolCreate(1)

CallerAcquire(j) ==
    /\ ipc[1] = "done"
    /\ jpc[j] = "idle"
    /\ rounds[j] < MaxRounds
    /\ rounds' = [rounds EXCEPT ![j] = @ + 1]
    /\ acquire(j)
    /\ AcquireFrame
    /\ UNCHANGED <<scraperVars, throttleVars>>

CallerRelease(j) ==
    /\ jpc[j] = "acquired"
    /\ release(held[j], [jpc EXCEPT ![j] = "idle"], [held EXCEPT ![j] = NoHandle])
    /\ UNCHANGED <<cfgVars, shutVars, spaVars, scraperVars, throttleVars, browser, launches, contexts, nextContextId, unhandled,
                   initVars, jentry, rounds, faults, order>>

NextPool ==
    \/ OwnerInitialize
    \/ OwnerLaunch
    \/ OwnerCreate
    \/ \E j \in Callers : CallerAcquire(j)
    \/ \E j \in Callers : AcquireProbe(j)
    \/ \E j \in Callers : AcquireRecycleClose(j)
    \/ \E j \in Callers : AcquireRecycleCreate(j)
    \/ \E j \in Callers : AcquireFresh(j)
    \/ \E j \in Callers : AcquireResume(j)
    \/ \E j \in Callers : CallerRelease(j)
    \/ \E t \in recycling : RecycleClose(t)
    \/ \E t \in recycling : RecycleCreate(t)
    \/ \E t \in recycling : RecycleThen(t)

SpecPool == InitPool /\ [][NextPool]_vars

\* ------------------------------------------------------------ SpecShutdown
\* The pool of SpecPool, shut down (directly or through the Scraper) at any
\* moment after initialize, and then shut down again.  As in SpecStream,
\* promise continuations run before the next call or I/O completion.
InitShutdown ==
    /\ InitFields
    /\ html = <<>>
    /\ response = NoResponse
    /\ domainLastRequest = <<>>
    /\ renderMs = UnitRender
    /\ concurrency \in 1..MaxConcurrency
    /\ contextMaxUses \in 0..1
    /\ skipStaticDetection = FALSE
    /\ preExtractScript = FALSE
    /\ perDomainDelayMs = 0

\* The callers of acquire and release while the pool is shut down.
Users == 1..MaxConcurrency

NextShutdown ==
    \/ Quiet(OwnerInitialize)
    \/ Quiet(OwnerLaunch)
    \/ Quiet(OwnerCreate)
    \/ \E j \in Users : Quiet(CallerAcquire(j))
    \/ \E j \in Users : Quiet(AcquireProbe(j))
    \/ \E j \in Users : Quiet(AcquireRecycleClose(j))
    \/ \E j \in Users : Quiet(AcquireRecycleCreate(j))
    \/ \E j \in Users : AcquireFresh(j)
    \/ \E j \in Users : AcquireResume(j)
    \/ \E j \in Users : Quiet(CallerRelease(j))
    \/ \E t \in recycling : Quiet(RecycleClose(t))
    \/ \E t \in recycling : Quiet(RecycleCreate(t))
    \/ \E t \in recycling : RecycleThen(t)
    \/ \E k \in Calls, kind \in {"pool", "scraper"} : Quiet(ShutdownCall(k, kind))
    \/ \E k \in Calls : Quiet(ShutdownClosed(k))
    \/ \E k \in Calls : Quiet(ShutdownBrowserClosed(k))
    \/ \E k \in Calls : ScraperShutdownDone(k)

SpecShutdown == InitShutdown /\ [][NextShutdown]_vars

\* ------------------------------------------------------------ SpecSPA
\* One fast-path response, any html of up to MaxHtml tokens.
Htmls == UNION {[1..n -> Tokens] : n \in 0..MaxHtml}

InitSPA ==
    /\ InitFields
    /\ html \in Htmls
    /\ response = NoResponse
    /\ domainLastRequest = <<>>
    /\ renderMs = UnitRender
    /\ concurrency = 1
    /\ contextMaxUses = 0
    /\ skipStaticDetection = FALSE
    /\ preExtractScript = FALSE
    /\ perDomainDelayMs = 0

NextSPA == StaticResponse

SpecSPA == InitSPA /\ [][NextSPA]_vars

\* ------------------------------------------------------------ SpecPaced
\* Pacing on, fast path on: one scrapeMany call for two urls of one host on
\* a Scraper of concurrency 1 or 2, with time.  A job that returns from
\* throttleDomain issues its plain fetch in the same turn of the event loop,
\* so no time passes in between.
InitPaced ==
    /\ InitFields
    /\ html = <<>>
    /\ response = NoResponse
    /\ domainLastRequest = <<>>
    /\ renderMs = UnitRender
    /\ concurrency \in 1..MaxConcurrency
    /\ contextMaxUses = 0
    /\ skipStaticDetection = FALSE
    /\ preExtractScript = FALSE
    /\ perDomainDelayMs \in 1..MaxDelay

PacedList == <<"a/1", "a/2">>

PacedTick == Tick /\ \A j \in JobIds : jpc[j] # "throttled"

NextPaced ==
    \/ BatchMany(PacedList)
    \/ PoolLaunch(1)
    \/ PoolCreate(1)
    \/ CallInitDone(1)
    \/ CallInitFailed(1)
    \/ ManySubmit(1)
    \/ \E j \in JobIds : ThrottleWake(j)
    \/ \E j \in JobIds : JobThrottled(j)
    \/ \E j \in JobIds : JobStaticFetch(j)
    \/ \E j \in JobIds : AcquireProbe(j)
    \/ \E j \in JobIds : AcquireRecycleClose(j)
    \/ \E j \in JobIds : AcquireRecycleCreate(j)
    \/ \E j \in JobIds : AcquireFresh(j)
    \/ \E j \in JobIds : JobNewPage(j)
    \/ \E j \in JobIds : JobRender(j)
    \/ \E j \in JobIds : JobPageClose(j)
    \/ \E j \in JobIds : ManySettled(j)
    \/ ManyReturn(1)
    \/ PacedTick

SpecPaced == InitPaced /\ [][NextPaced]_vars

\* ------------------------------------------------------------ SpecFetch
\* One call of tryStaticFetch against a server that answers with any status,
\* content type and body, at any time or never.
Bodies == UNION {[1..n -> Tokens] : n \in 0..MaxBody}

InitFetch ==
    /\ InitFields
    /\ html \in Bodies
    /\ response \in Responses
    /\ domainLastRequest = <<>>
    /\ renderMs = UnitRender
    /\ concurrency = 1
    /\ contextMaxUses = 0
    /\ skipStaticDetection = FALSE
    /\ preExtractScript = FALSE
    /\ perDomainDelayMs = 0

NextFetch ==
    \/ FetchIssue
    \/ FetchTick
    \/ FetchAbort
    \/ FetchHeaders
    \/ FetchError
    \/ FetchBody

SpecFetch == InitFetch /\ [][NextFetch]_vars

\* ------------------------------------------------------------ SpecHaltLive
\* One scrapeMany or scrapeStream call of MaxUrls urls on a Scraper of
\* concurrency 1, Scraper.shutdown called at any moment after initialize, and
\* a scrape call on the same Scraper after shutdown has returned.
\* The event loop runs every continuation that is ready, and every external
\* operation eventually returns or fails.
InitHalt ==
    /\ InitFields
    /\ html = <<>>
    /\ response = NoResponse
    /\ domainLastRequest = <<>>
    /\ renderMs = UnitRender
    /\ concurrency = 1
    /\ contextMaxUses = 0
    /\ skipStaticDetection = FALSE
    /\ preExtractScript = FALSE
    /\ perDomainDelayMs = 0

NextHalt ==
    \/ BatchMany(FullList)
    \/ BatchStream(FullList)
    \/ PoolLaunch(1)
    \/ PoolCreate(1)
    \/ CallInitDone(1)
    \/ CallInitFailed(1)
    \/ ManySubmit(1)
    \/ StreamSubmit(1)
    \/ \E j \in JobIds : JobThrottled(j)
    \/ \E j \in JobIds : JobStaticFetch(j)
    \/ \E j \in JobIds : AcquireProbe(j)
    \/ \E j \in JobIds : AcquireRecycleClose(j)
    \/ \E j \in JobIds : AcquireRecycleCreate(j)
    \/ \E j \in JobIds : AcquireFresh(j)
    \/ \E j \in JobIds : JobNewPage(j)
    \/ \E j \in JobIds : JobRender(j)
    \/ \E j \in JobIds : JobPageClose(j)
    \/ \E j \in JobIds : ManySettled(j)
    \/ \E j \in JobIds : StreamSettled(j)
    \/ \E j \in JobIds : StreamCatch(j)
    \/ \E j \in JobIds : StreamFinally(j)
    \/ ManyReturn(1)
    \/ StreamResume(1)
    \/ ShutdownCall(1, "scraper")
    \/ ShutdownClosed(1)
    \/ ShutdownBrowserClosed(1)
    \/ ScraperShutdownDone(1)
    \/ spc[1] = "returned" /\ CallStart(2, "scrape", <<"a/1">>)
    \/ PoolLaunch(2)
    \/ PoolCreate(2)
    \/ CallInitDone(2)
    \/ CallInitFailed(2)
    \/ ScrapeSubmit(2)
    \/ \E j \in JobIds : ScrapeSettled(j)
    \/ \E j \in JobIds : AcquireResume(j)

SpecHaltLive == InitHalt /\ [][NextHalt]_vars /\ WF_vars(NextHalt)

\* ------------------------------------------------------------ SpecThrottle
\* Pacing on, or off by a zero or negative perDomainDelayMs: processJob is
\* entered for up to MaxCallers jobs (by scrape calls on an initialized
\* Scraper) at any times, and jobs are followed through throttleDomain.
PacedUrls == {"a/1", "a/2", "b/1", NotAUrl}

InitThrottle ==
    /\ InitFields
    /\ html = <<>>
    /\ response = NoResponse
    /\ domainLastRequest = <<>>
    /\ renderMs = UnitRender
    /\ concurrency = MaxConcurrency
    /\ contextMaxUses = 0
    /\ skipStaticDetection = FALSE
    /\ preExtractScript = FALSE
    /\ perDomainDelayMs \in (0 - 1)..MaxDelay

PacedStart(j, url) ==
    /\ jpc[j] = "idle"
    /\ jurl' = [jurl EXCEPT ![j] = url]
    /\ Starts(jpc, <<j>>, jurl')
    /\ UNCHANGED <<cfgVars, shutVars, spaVars, poolVars, initVars, jentry, held, rounds, faults,
                   histVars, initialized, queueVars, callVars, jprio, jres, jok,
                   now>>

NextThrottle ==
    \/ \E j \in Callers, u \in PacedUrls : PacedStart(j, u)
    \/ \E j \in Callers : ThrottleWake(j)
    \/ Tick

SpecThrottle == InitThrottle /\ [][NextThrottle]_vars

\* ------------------------------------------------------------ SpecPrune
\* Pacing on, with a pacing table that earlier calls have filled to about
\* PruneAbove hosts: jobs enter processJob at any times for a host of the
\* table, for new hosts and for a string that is no url.  Times are counted
\* from the start of the observation, so the earlier entries are negative.
HostUrl(i) == ToString(i)
HostUrls(n) == {HostUrl(i) : i \in 1..n}
Stamps == {0 - StaleAfter - 1, 0 - StaleAfter, 0 - 1}
PruneUrls == {HostUrl(1), HostUrl(PruneAbove + 1), HostUrl(PruneAbove + 2), NotAUrl}

InitPrune ==
    /\ InitFields
    /\ html = <<>>
    /\ response = NoResponse
    /\ \E n \in {PruneAbove - 1, PruneAbove, PruneAbove + 1} :
       \E k \in {0, 1, n} :
       \E early, late \in Stamps :
          domainLastRequest =
              [h \in HostUrls(n) |-> IF h \in HostUrls(k) THEN early ELSE late]
    /\ renderMs = UnitRender
    /\ concurrency = MaxConcurrency
    /\ contextMaxUses = 0
    /\ skipStaticDetection = FALSE
    /\ preExtractScript = FALSE
    /\ perDomainDelayMs \in 1..MaxDelay

NextPrune ==
    \/ \E j \in Users, u \in PruneUrls : PacedStart(j, u)
    \/ \E j \in Users : ThrottleWake(j)
    \/ Tick

SpecPrune == InitPrune /\ [][NextPrune]_vars

\* ------------------------------------------------------------ claims on SpecPool
\* A caller obtains a handle in this step.
Obtains(j) == held[j] = NoHandle /\ held'[j] # NoHandle

\* C1: no handle is held by two callers at the same time, when every caller
\* releases exactly the handle it acquired, exactly once.
C1_NoDoubleHolding ==
    \A a, b \in JobIds :
        (a # b /\ held[a] # NoHandle /\ held[b] # NoHandle) => held[a] # held[b]

\* Two callers hold handles at once, one of them a handle that was held before.
C1_Witness ==
    \E a, b \in JobIds :
        /\ a # b
        /\ held[a] # NoHandle
        /\ held[b] # NoHandle
        /\ entries[held[a]].useCount >= 2

\* C8: waiters are served FIFO: no caller obtains a handle while a caller that
\* suspended in acquire before it called acquire is still waiting.
C8_WaitersFIFO ==
    [][\A a, b \in JobIds :
          (a # b /\ jpc[a] = "waiting" /\ Obtains(b)) => ~Before(order, a, b)]_vars

\* A waiter has been resumed with a handle while a later waiter is still queued.
C8_Witness ==
    \E a, b \in JobIds :
        jpc[a] = "waiting" /\ jpc[b] = "resumed" /\ Before(order, b, a)

\* C9: a release that finds useCount >= contextMaxUses > 0 recycles the slot:
\* the entry offered afterwards for the slot id is another handle with
\* useCount 0; with contextMaxUses = 1 no acquire returns the handle the
\* previous acquire on that slot returned.
C9_RecycleFresh ==
    [][/\ \A t \in recycling :
             (t.stage = "then" /\ t \notin recycling') =>
                 LET id == entries[t.old].id IN
                 /\ id \in DOMAIN contexts
                 /\ contexts[id] # t.old
                 /\ entries[contexts[id]].useCount = 0
       /\ \A j \in JobIds :
             (contextMaxUses = 1 /\ Obtains(j)) =>
                 LET id == entries[held'[j]].id IN
                 id \in DOMAIN lastHandle => lastHandle[id] # held'[j]]_vars

\* A release-triggered recycle has completed and its fresh handle is held.
C9_Witness ==
    \E j \in JobIds :
        /\ contextMaxUses > 0
        /\ faults = 0
        /\ jpc[j] = "acquired"
        /\ held[j] > concurrency

Ids(rs) == [i \in DOMAIN rs |-> rs[i].id]
Count(seq, x) == Cardinality({i \in DOMAIN seq : seq[i] = x})

\* C3: scrapeStream yields one result per submitted job: never one twice, none
\* dropped (a result is buffered until it is yielded), and exactly len(urls) by
\* the time the sequence ends.
C3_StreamExactlyOnce ==
    \A c \in Calls :
        ckind[c] = "stream" =>
            /\ \A j \in JobIds :
                  Count(Ids(yielded[c] \o sresults[c]), j) =
                      IF j \in JobsOf(c) /\ jpc[j] \in {"finally", "settled"}
                      THEN 1 ELSE 0
            /\ cpc[c] = "ended" => Len(yielded[c]) = Len(curls[c])

\* A stream of two urls has ended, the second job yielded first, one job
\* having rejected.
C3_Witness ==
    /\ ckind[1] = "stream"
    /\ cpc[1] = "ended"
    /\ Len(yielded[1]) = 2
    /\ yielded[1][1].id = JobOf(1, 2)
    /\ \E i \in 1..2 : yielded[1][i].error

C5_ScrapeNeverRejects ==
    \A j \in JobIds : ckind[CallOf(j)] = "scrape" => jpc[j] # "rejected"

\* The jobs inside processJob.
InProcessJob(j) ==
    jpc[j] \in {"sleeping", "throttled", "fetch", "probe", "acqClose", "acqCreate",
                "acqFresh", "waiting", "resumed", "acquired", "render",
                "pageClose"}

\* C6: at most `concurrency` jobs execute processJob at the same time,
\* counting scrape, scrapeMany and scrapeStream together.
C6_ConcurrencyCeiling ==
    Cardinality({j \in JobIds : InProcessJob(j)}) <= concurrency

\* C7: the pool never holds more than `concurrency` entries and only one
\* engine is launched, also when calls start before initialization finished.
C7_PoolSizeFixed ==
    /\ Cardinality(DOMAIN contexts) <= concurrency
    /\ launches <= 1

\* ------------------------------------------------------------ claims on SpecThrottle
\* C10: with perDomainDelayMs > 0, any two jobs for the same host return from
\* the pacing wait at least perDomainDelayMs apart.
C10_MinSpacing ==
    \A a, b \in JobIds :
        (/\ a # b
         /\ dispatched[a] # Never
         /\ dispatched[b] # Never
         /\ HasHost(jurl[a]) /\ HasHost(jurl[b])
         /\ hostname(jurl[a]) = hostname(jurl[b])
         /\ dispatched[a] <= dispatched[b])
        => dispatched[b] - dispatched[a] >= perDomainDelayMs

\* ------------------------------------------------------------ claims on SpecBatchLive
\* The result of job j has been produced: scrapeMany resolved with it, or
\* scrapeStream buffered or yielded it.
Produced(j) ==
    \/ ckind[CallOf(j)] = "many" /\ cpc[CallOf(j)] = "resolved"
    \/ ckind[CallOf(j)] = "stream"
          /\ Count(Ids(yielded[CallOf(j)] \o sresults[CallOf(j)]), j) = 1

\* C11: every job submitted through scrapeMany or scrapeStream eventually
\* produces its ScrapeResult (as long as contexts can still be created).
C11_EveryJobSettles ==
    \A j \in JobIds :
        (jpc[j] # "idle") ~> (Produced(j) \/ Len(entries) = MaxHandles)

\* ------------------------------------------------------------ more claims on SpecPool
\* The entry of slot id is somewhere it can come back from: idle, handed to a
\* caller, popped by a caller inside acquire, or being recycled.
SlotAccounted(id) ==
    \/ contexts[id] \in Range(available)
    \/ \E j \in JobIds : held[j] # NoHandle /\ entries[held[j]].id = id
    \/ \E j \in JobIds : /\ jpc[j] \in {"probe", "acqClose", "acqCreate", "acqFresh"}
                          /\ entries[jentry[j]].id = id
    \/ \E t \in recycling : entries[t.old].id = id

\* C12: a failure inside a recycle never rejects acquire, never goes
\* unhandled, and never loses the slot.
C12_RecycleNeverFails ==
    /\ unhandled = 0
    /\ \A j \in JobIds : jpc[j] # "acqRejected"
    /\ \A c \in Calls : ipc[c] = "done" => \A id \in DOMAIN contexts : SlotAccounted(id)

\* ------------------------------------------------------------ more claims on SpecBatch
\* After the step, handle h is back with the pool: idle, being recycled, or
\* handed on to a waiter.
Returned(h) ==
    \/ h \in Range(available')
    \/ \E t \in recycling' : t.old = h
    \/ \E w \in JobIds : held'[w] = h

AfterProcessJob ==
    {"pjResolved", "pjRejected", "fulfilled", "rejected", "catch", "finally", "settled"}

\* C13: a job gives up its handle only by releasing it to the pool, either
\* when newPage failed (no page is open) or in the step that closes the page;
\* no job is past processJob with a handle, and no handle is released twice
\* (it is never idle twice, nor idle while held).
C13_ReleaseExactlyOnce ==
    [][\A j \in JobIds :
          /\ (held[j] # NoHandle /\ held'[j] # held[j]) =>
                 /\ held'[j] = NoHandle
                 /\ jpc[j] \in {"acquired", "pageClose"}
                 /\ entries[held[j]].busy
                 /\ Returned(held[j])
          /\ jpc'[j] \in AfterProcessJob => held'[j] = NoHandle
          /\ jpc'[j] \in {"render", "pageClose"} => held'[j] # NoHandle
          /\ held'[j] # NoHandle => Count(available', held'[j]) = 0
          /\ \A h \in Range(available') : Count(available', h) = 1
      ]_vars

\* Two jobs are past the slow path, one after a failure, one after a success.
C13_Witness ==
    \E j, k \in JobIds :
        /\ jpc[j] \in AfterProcessJob /\ jres[j].error
        /\ jpc[k] \in AfterProcessJob /\ jok[k] /\ ~jres[k].error /\ jres[k] # NoResult

\* ------------------------------------------------------------ claims on SpecQueue
\* C14: of two jobs of one scrapeMany call that wait in the queue together,
\* the one later in the input never starts while the earlier still waits.
C14_QueueInputOrder ==
    [][\A a, b \in JobIds :
          (/\ CallOf(a) = CallOf(b)
           /\ IndexOf(a) < IndexOf(b)
           /\ jpc[a] = "queued"
           /\ jpc[b] = "queued")
          => ~(jpc'[b] # "queued" /\ jpc'[a] = "queued")
      ]_vars

\* ------------------------------------------------------------ claims on SpecRoute
\* C15: with skipStaticDetection set or a preExtractScript supplied, no job
\* ever has a plain fetch in flight, and a job leaves the pacing wait
\* straight into pool.acquire.
C15_NoFetchWhenSkipped ==
    [][\A j \in JobIds :
          (skipStaticDetection \/ preExtractScript) =>
              /\ jpc'[j] # "fetch"
              /\ (jpc[j] = "throttled" /\ jpc'[j] # "throttled")
                    => jpc'[j] \in {"probe", "waiting"}
      ]_vars

\* A job was rendered with a script configured and skipStaticDetection unset.
C15_Witness ==
    \E j \in JobIds :
        /\ preExtractScript /\ ~skipStaticDetection
        /\ jpc[j] \in AfterProcessJob /\ jok[j] /\ jres[j] = SuccessResult(j)

\* ------------------------------------------------------------ claims on SpecStream
\* The jobs whose results call c has buffered or yielded, in that order,
\* before and after a step.
Delivered(c) == Ids(yielded[c] \o sresults[c])
DeliveredNext(c) == Ids(yielded'[c] \o sresults'[c])

Finished == {"pjResolved", "pjRejected", "acqRejected", "catch", "finally", "settled"}

\* C16: scrapeStream yields in completion order: results are delivered
\* first in, first out, and when the result of job b is delivered every job
\* of the call whose processJob had finished before is already delivered.
C16_CompletionOrder ==
    [][\A c \in Calls :
          ckind[c] = "stream" =>
             /\ Len(Delivered(c)) <= Len(DeliveredNext(c))
             /\ SubSeq(DeliveredNext(c), 1, Len(Delivered(c))) = Delivered(c)
             /\ \A b \in JobsOf(c) :
                   (Count(Delivered(c), b) = 0 /\ Count(DeliveredNext(c), b) = 1) =>
                      \A a \in JobsOf(c) \ {b} :
                          jpc[a] \in Finished => Count(Delivered(c), a) = 1
      ]_vars

\* Three jobs were yielded against their input order, the first of them
\* after its processJob rejected.
C16_Witness ==
    /\ ckind[1] = "stream"
    /\ Len(yielded[1]) = 3
    /\ yielded[1][1].id = JobOf(1, 2)
    /\ yielded[1][1].error
    /\ yielded[1][2].id = JobOf(1, 3)
    /\ yielded[1][3].id = JobOf(1, 1)

\* ------------------------------------------------------------ claims on SpecStreamLive
\* Every job of the submitted stream call c has settled (its `.finally` ran).
AllSettled(c) ==
    /\ ckind[c] = "stream"
    /\ cpc[c] \in {"wait", "woken", "yielded", "ended"}
    /\ \A j \in JobsOf(c) : jpc[j] = "settled"

\* C17: the stream never ends while a job is unsettled or a result is still
\* buffered, and once every job has settled it eventually ends.
C17_EndsWhenSettled ==
    /\ [](\A c \in Calls :
            (ckind[c] = "stream" /\ cpc[c] = "ended") =>
                AllSettled(c) /\ sresults[c] = <<>>)
    /\ \A c \in Calls : AllSettled(c) ~> (cpc[c] = "ended")

\* ------------------------------------------------------------ claims on SpecTimed
Min(a, b) == IF a < b THEN a ELSE b
Max(a, b) == IF a < b THEN b ELSE a

\* When the first of jobs 1 and 2 releases its entry, and when all is done.
FirstRelease == Min(renderMs[1], renderMs[2])
Makespan == Max(Max(renderMs[1], renderMs[2]), FirstRelease + renderMs[3])

\* C18: with pool size and concurrency 2 and three jobs submitted together,
\* job 3 does not render before job 1 or job 2 has released its entry, it
\* starts rendering at the time of the first release, and scrapeMany
\* completes at the makespan of that schedule (for durations 2, 2, 1 -- i.e.
\* 100, 100, 50 -- at time 3, not 5 and not 2).
C18_PoolPacing ==
    [][/\ jpc'[JobOf(1, 3)] \in {"render", "pageClose"} =>
             \/ jpc'[JobOf(1, 1)] \in AfterProcessJob
             \/ jpc'[JobOf(1, 2)] \in AfterProcessJob
       /\ renderEnd'[JobOf(1, 3)] # Never =>
             renderEnd'[JobOf(1, 3)] = FirstRelease + renderMs[3]
       /\ (cpc[1] # "resolved" /\ cpc'[1] = "resolved") => now = Makespan
      ]_vars

\* The scenario of durations 100, 100, 50 has completed, at time 150.
C18_Witness ==
    /\ renderMs[1] = 2 /\ renderMs[2] = 2 /\ renderMs[3] = 1
    /\ cpc[1] = "resolved"
    /\ Len(cret[1]) = 3
    /\ now = 3

\* ------------------------------------------------------------ claims on SpecShutdown
\* The pool has no entries, no idle entries and no engine.
PoolEmpty == contexts = <<>> /\ available = <<>> /\ browser = 0

\* C19: when a shutdown returns the pool has no entries, no idle entries and
\* no engine, whether or not closing a handle failed; and a shutdown called on
\* such a pool after an earlier one returned changes nothing in the pool.
C19_ShutdownIdempotent ==
    [][\A k \in Calls :
          /\ (spc[k] # "returned" /\ spc'[k] = "returned") => PoolEmpty'
          /\ (k > 1 /\ spc[k] = "idle" /\ spc'[k] # "idle" /\ PoolEmpty)
                 => (poolVars' = poolVars /\ spc'[k] \in {"poolDone", "returned"})
      ]_vars

\* ------------------------------------------------------------ claims on SpecSPA
\* Position i opens a div whose first attribute is one of the four ids and
\* which is closed after whitespace only.
EmptyRootAt(i) ==
    /\ html[i] = "rootDiv"
    /\ \E k \in (i + 1)..Len(html) :
          /\ html[k] = "endDiv"
          /\ \A m \in (i + 1)..(k - 1) : html[m] = "ws"

HasEmptyRoot == \E i \in DOMAIN html : EmptyRootAt(i)

\* Position i opens a div with one of the four ids, wherever the id stands
\* among its attributes, closed after whitespace only.
EmptyAppRootAt(i) ==
    /\ html[i] \in {"rootDiv", "rootDivClass"}
    /\ \E k \in (i + 1)..Len(html) :
          /\ html[k] = "endDiv"
          /\ \A m \in (i + 1)..(k - 1) : html[m] = "ws"

\* The html has a <body> tag with a </body> after it.
HasBody ==
    \E i, e \in DOMAIN html : i < e /\ html[i] = "body" /\ html[e] = "endBody"

\* The first <body> tag and the first </body> after it.
BodyOpen == CHOOSE i \in DOMAIN html : html[i] = "body" /\ \A o \in 1..(i - 1) : html[o] # "body"
BodyClose ==
    CHOOSE e \in DOMAIN html :
        e > BodyOpen /\ html[e] = "endBody"
        /\ \A o \in (BodyOpen + 1)..(e - 1) : html[o] # "endBody"

\* The positions between the two.
Inside == (BodyOpen + 1)..(BodyClose - 1)

\* Position i of the region R lies in a script element of R: from a <script>
\* to the first </script> after it.
InScript(R, i) ==
    \E o \in R :
        /\ o <= i
        /\ html[o] = "script"
        /\ \E e \in R : e > o /\ html[e] = "endScript"
        /\ \A m \in (o + 1)..(i - 1) : html[m] # "endScript"

\* Position i of R is outside every script element and lies in a style
\* element of what is left.
InStyle(R, i) ==
    \E o \in R :
        /\ o <= i
        /\ ~InScript(R, o)
        /\ html[o] = "style"
        /\ \E e \in R : e > o /\ ~InScript(R, e) /\ html[e] = "endStyle"
        /\ \A m \in (o + 1)..(i - 1) : InScript(R, m) \/ html[m] # "endStyle"

\* Position i of R holds text or whitespace outside script and style elements.
Visible(R, i) ==
    i \in R /\ html[i] \notin Tags /\ ~InScript(R, i) /\ ~InStyle(R, i)

\* ... and is not leading or trailing whitespace.
Counted(R, i) ==
    /\ Visible(R, i)
    /\ html[i] = "ws" =>
          /\ \E a \in R : a < i /\ Visible(R, a) /\ html[a] \in Texts
          /\ \E b \in R : b > i /\ Visible(R, b) /\ html[b] \in Texts

\* The number of characters of the text of R.
RECURSIVE CharsUpTo(_, _)
CharsUpTo(R, n) ==
    IF n = 0 THEN 0
    ELSE CharsUpTo(R, n - 1) + (IF Counted(R, n) THEN CharCount(html[n]) ELSE 0)

TextLength(R) == CharsUpTo(R, Len(html))

\* C20: looksLikeSPA is true, and the job goes on to the browser, exactly
\* when (a) the html has a div whose first attribute is id root, app, __next or
\* __nuxt and which holds whitespace only, or (b) the html has a <body> tag
\* with a </body> after it and the text between the first such pair, without
\* script elements, style elements, tags and surrounding whitespace, is
\* shorter than 200 characters.  Without such a pair and without (a) the
\* response is final whatever its text.
C20_SPAHeuristic ==
    route # "none" =>
        (route = "browser" <=> (HasEmptyRoot \/ (HasBody /\ TextLength(Inside) < 200)))

\* A body whose text is 50 characters once a script element is removed goes to
\* the browser.
C20_Witness ==
    /\ route = "browser"
    /\ ~HasEmptyRoot
    /\ HasBody
    /\ TextLength(Inside) = 50
    /\ \E i \in Inside : html[i] = "endScript" /\ InScript(Inside, i)

\* C20 as stated: true exactly when the html has an empty div with one of the
\* four ids, or the stripped text of the response (of its body element, when it
\* has one) is shorter than 200 characters.
C20_AsStated ==
    route # "none" =>
        (route = "browser" <=>
            \/ \E i \in DOMAIN html : EmptyAppRootAt(i)
            \/ TextLength(IF HasBody THEN Inside ELSE DOMAIN html) < 200)

SuspendedInAcquire(j) == jpc[j] \in {"probe", "acqClose", "acqCreate"}

\* C22: a caller suspended inside acquire (at the liveness probe or in the
\* recycle the probe started) holds an entry that is marked busy, so that
\* stats reports the slot as busy.
C22_BusyBeforeSuspension ==
    \A j \in JobIds :
        SuspendedInAcquire(j) =>
            /\ entries[jentry[j]].busy
            /\ \A id \in DOMAIN contexts :
                  contexts[id] = jentry[j] => StatsBusy(id)

\* The old handles of the recycles in progress: closing, or waiting for the
\* replacement.
RecyclingOld ==
    {t.old : t \in {r \in recycling : r.stage \in {"close", "create"}}}
        \cup {jentry[j] : j \in {i \in JobIds : jpc[i] \in {"acqClose", "acqCreate"}}}

\* Recycling of handle h has started at some time: it is in progress, or its
\* slot has a later handle, or h was released with its uses exhausted, or the
\* recycle a failed probe started was given up.
Retired(h) ==
    \/ h \in RecyclingOld
    \/ \E h2 \in DOMAIN entries : h2 > h /\ entries[h2].id = entries[h].id
    \/ contextMaxUses > 0 /\ entries[h].useCount >= contextMaxUses
    \/ \E j \in JobIds : jpc[j] = "acqRejected" /\ jentry[j] = h

\* C23: while a slot is being recycled no acquire returns a handle of that
\* slot, and a handle whose recycling has started is never returned again.
C23_NoHandoutDuringRecycle ==
    [][\A j \in JobIds :
          Obtains(j) =>
              /\ ~Retired(held'[j])
              /\ \A o \in RecyclingOld : entries[o].id # entries[held'[j]].id
      ]_vars

\* A caller waits for an entry while the only slot is being recycled.
C23_Witness ==
    /\ concurrency = 1
    /\ waiters # <<>>
    /\ available = <<>>
    /\ \E t \in recycling : t.stage = "create"
    /\ \A j \in JobIds : held[j] = NoHandle

\* ------------------------------------------------------------ more claims on SpecShutdown
\* C24: acquire never returns the handle whose liveness probe failed: what the
\* caller gets after the recycle is another handle, created for the same slot
\* id and not used before.
C24_NoDeadHandle ==
    [][\A j \in JobIds :
          (jpc[j] = "acqFresh" /\ Obtains(j)) =>
              /\ held'[j] # jentry[j]
              /\ entries'[held'[j]].id = entries[jentry[j]].id
              /\ entries'[held'[j]].useCount = 1
      ]_vars

\* A caller holds the replacement of an entry whose probe failed; a shutdown
\* that ran while the entry was being recycled has returned, and the
\* replacement was installed after it emptied the map.
C24_Witness ==
    \E j \in JobIds :
        /\ jpc[j] = "acquired"
        /\ jentry[j] # NoHandle
        /\ held[j] > jentry[j]
        /\ spc[1] = "returned"
        /\ entries[held[j]].id \in DOMAIN contexts
        /\ contexts[entries[held[j]].id] = held[j]

\* ------------------------------------------------------------ claims on SpecHaltLive
\* C25: a job that is still queued for a scheduler slot when shutdown is
\* called (shutdown took it off the queue before it started) still produces
\* its ScrapeResult, and its scrapeMany promise settles or its stream ends.
C25_QueuedJobsSurviveShutdown ==
    \A j \in JobIds :
        (jpc[j] = "queued" /\ j \notin Range(qqueue))
            ~> (Produced(j) /\ cpc[CallOf(j)] \in {"resolved", "ended"})

\* ------------------------------------------------------------ claims on SpecFetch
\* C26: from the moment the request is issued, tryStaticFetch is over (html
\* accepted or null returned) within the 10 s of the abort timer, a server
\* that stalls after the response headers included.
C26_FetchBounded ==
    fpc \in {"headers", "body"} => fclock <= AbortAfter

\* The content type names HTML or XHTML.
HtmlType == response.contentType \in
                {<<"text/html">>, <<"text/html", "; charset=utf-8">>,
                 <<"application/xhtml", "+xml">>}

\* C27: tryStaticFetch decides once; the job goes on to the browser path
\* exactly when the request failed, the status was not ok, the content type
\* was neither HTML nor XHTML or the body looks like an SPA shell; otherwise
\* the fetched html is final.
C27_OnePath ==
    /\ (fpc \in {"returned", "caught"}) <=> (route # "none")
    /\ route = "static" =>
          fpc = "returned" /\ response.ok /\ HtmlType /\ ~looksLikeSPA(html)
    /\ route = "browser" =>
          fpc = "caught" \/ ~response.ok \/ ~HtmlType \/ looksLikeSPA(html)

C27_Witness ==
    /\ route = "static"
    /\ response.contentType = <<"application/xhtml", "+xml">>
    /\ html # <<>>
    /\ fclock > 0

\* ------------------------------------------------------------ more claims on SpecBatch
\* Job j takes a step of the static fast path: it issues the plain fetch, or
\* it returns the result built from the fetched html.
StaticStep(j) ==
    \/ jpc[j] = "throttled" /\ jpc'[j] = "fetch"
    \/ jpc[j] = "fetch" /\ jpc'[j] = "pjResolved"

\* C28: a job that completes on the static fast path neither acquires nor
\* releases: each of its steps leaves the idle list, the waiters and every
\* entry's useCount and busy flag as they were, and it holds no context.
C28_StaticLeavesPool ==
    [][\A j \in JobIds :
          StaticStep(j) =>
              /\ available' = available
              /\ waiters' = waiters
              /\ entries' = entries
              /\ contexts' = contexts
              /\ held[j] = NoHandle /\ held'[j] = NoHandle
              /\ jentry'[j] = jentry[j]]_vars

\* A job has completed on the fast path while another job uses the pool.
C28_Witness ==
    \E j, k \in JobIds :
        /\ jpc[j] \in {"pjResolved", "settled"}
        /\ jres[j] = SuccessResult(j)
        /\ jentry[j] = NoHandle
        /\ held[j] = NoHandle
        /\ held[k] # NoHandle
        /\ available # <<>>

\* ------------------------------------------------------------ claims on SpecPaced
\* Lines 264-268: the plain fetch of job j is issued when throttleDomain
\* returns.  Lines 320-329: page.goto is issued when newPage has resolved,
\* renderMs before the rendering ends.
fetchedAt(j) == dispatched[j]
navigatedAt(j) ==
    IF renderEnd[j] = Never THEN Never ELSE renderEnd[j] - renderMs[IndexOf(j)]

\* The network requests issued so far: job, kind, host and time.
Requests ==
    {[job |-> j, kind |-> "fetch", host |-> hostname(jurl[j]), at |-> fetchedAt(j)] :
        j \in {k \in JobIds : fetchedAt(k) # Never}}
    \cup
    {[job |-> j, kind |-> "goto", host |-> hostname(jurl[j]), at |-> navigatedAt(j)] :
        j \in {k \in JobIds : navigatedAt(k) # Never}}

\* C29: with perDomainDelayMs > 0, any two network requests to one host
\* (plain fetch or navigation, of one job or of two) are issued at least
\* perDomainDelayMs apart.
C29_RequestSpacing ==
    \A r, q \in Requests :
        (r # q /\ r.host = q.host /\ r.at <= q.at)
            => q.at - r.at >= perDomainDelayMs

\* Every ScrapeResult there is: built by a job, returned by scrapeMany or
\* scrape, buffered or yielded by scrapeStream.
AllResults ==
    {jres[j] : j \in JobIds}
    \cup UNION {Range(cret[c]) \cup Range(sresults[c]) \cup Range(yielded[c]) :
                  c \in Calls}
ErrorResults == {r \in AllResults : r.error}

\* r has the id and url of its job, empty markdown and empty metadata, and
\* zero navigation, extraction and conversion times.
EmptyButTotal(r) ==
    /\ r.id \in JobIds
    /\ r.url = jurl[r.id]
    /\ r.markdown = ""
    /\ r.metadata = [url |-> r.url, wordCount |-> 0]
    /\ r.timing.navigation = 0
    /\ r.timing.extraction = 0
    /\ r.timing.conversion = 0

\* C30: every error-bearing ScrapeResult has the job's id and url, empty
\* markdown, empty metadata and zero navigation, extraction and conversion
\* times; its total time is zero when a fallback of scrapeMany or
\* scrapeStream built it, and the time since processJob was entered when
\* the catch block of processJob built it.
C30_ErrorResultShape ==
    /\ [](\A r \in ErrorResults : EmptyButTotal(r) /\ r.timing.total >= 0)
    /\ [](\A c \in Calls : \A i \in DOMAIN cret[c] :
             jpc[JobOf(c, i)] = "rejected" => cret[c][i].timing.total = 0)
    /\ [][\A j \in JobIds :
             (jres'[j] # jres[j] /\ jres'[j].error)
                 => jres'[j].timing.total = now - totalStart[j]]_vars

\* scrapeMany has returned the result of a catch block that ran some time
\* after its job was entered.
C30_Witness ==
    /\ cpc[1] = "resolved"
    /\ \E i \in DOMAIN cret[1] :
          /\ cret[1][i].error
          /\ cret[1][i].timing.total > 0
          /\ jpc[JobOf(1, i)] = "fulfilled"

\* C30 as stated: all four timings of every error-bearing result are zero.
C30_AsStated ==
    \A r \in ErrorResults : EmptyButTotal(r) /\ r.timing.total = 0

\* Job j is past the pacing wait: its plain fetch is in flight, or it is in
\* acquire, or it has a context.
PastPacing(j) ==
    jpc[j] \in {"fetch", "probe", "acqClose", "acqCreate", "acqFresh",
                "waiting", "resumed", "acquired", "render", "pageClose"}

\* C31: the pacing wait comes after admission by the queue and before the
\* fast path and the pool: a job in the pacing wait has been started by the
\* queue and has no pool entry, a job still queued has not paced, and a job
\* that fetches, acquires or holds an entry has returned from the wait.
C31_PacingBetween ==
    \A j \in JobIds :
        /\ jpc[j] = "sleeping" =>
              /\ held[j] = NoHandle /\ jentry[j] = NoHandle
              /\ j \notin Range(qqueue)
              /\ totalStart[j] # Never /\ dispatched[j] = Never
        /\ jpc[j] = "queued" =>
              /\ wake[j] = Never /\ dispatched[j] = Never
              /\ held[j] = NoHandle /\ jentry[j] = NoHandle
        /\ (PastPacing(j) \/ held[j] # NoHandle \/ jentry[j] # NoHandle) =>
              /\ dispatched[j] # Never
              /\ j \notin Range(qqueue)

\* A job is in the pacing wait while another job holds a context.
C31_Witness ==
    \E j, k \in JobIds :
        /\ jpc[j] = "sleeping" /\ wake[j] > now
        /\ held[k] # NoHandle

\* ------------------------------------------------------------ claims on SpecPrune
\* Job j returns from throttleDomain in this step.
Returns(j) == jpc[j] # "throttled" /\ jpc'[j] = "throttled"

Stale(table, g) == table[g] < now - StaleAfter

\* C32: when throttleDomain returns for a url that has a host, that host is
\* in the table with the current time, no other entry has been added or
\* changed, no entry of at most 60 s has been removed, and if the table has
\* more than 100 hosts none of them is older than 60 s.
C32_PruneStale ==
    [][\A j \in JobIds :
          (Returns(j) /\ HasHost(jurl'[j])) =>
              LET h == hostname(jurl'[j])
                  before == domainLastRequest
                  after == domainLastRequest'
              IN /\ h \in DOMAIN after /\ after[h] = now
                 /\ DOMAIN after \subseteq (DOMAIN before) \cup {h}
                 /\ \A g \in (DOMAIN before) \ {h} :
                       /\ g \in DOMAIN after => after[g] = before[g]
                       /\ ~Stale(before, g) => g \in DOMAIN after
                 /\ Cardinality(DOMAIN after) > PruneAbove =>
                       \A g \in DOMAIN after : ~Stale(after, g)]_vars

\* A call has pruned stale entries and left more than 100 hosts.
C32_Witness ==
    /\ Cardinality(DOMAIN domainLastRequest) > PruneAbove
    /\ HostUrl(PruneAbove + 1) \in DOMAIN domainLastRequest
    /\ HostUrl(PruneAbove + 2) \in DOMAIN domainLastRequest
    /\ HostUrl(1) \notin DOMAIN domainLastRequest
    /\ \E j \in JobIds : dispatched[j] = now /\ now > 0

\* C32 as stated: after any return of throttleDomain with more than 100
\* hosts in the table, no entry is older than 60 s.
C32_AsStated ==
    [][\A j \in JobIds :
          (Returns(j) /\ Cardinality(DOMAIN domainLastRequest') > PruneAbove)
              => \A g \in DOMAIN domainLastRequest' :
                    ~Stale(domainLastRequest', g)]_vars

\* ------------------------------------------------------------ more claims on SpecThrottle
\* C33: with perDomainDelayMs zero or negative, throttleDomain returns in the
\* step that calls it, for every url, without a timer and without touching
\* the pacing table.
C33_PacingOff ==
    /\ [](perDomainDelayMs <= 0 =>
             /\ domainLastRequest = <<>>
             /\ \A j \in JobIds : jpc[j] # "sleeping" /\ wake[j] = Never)
    /\ [][\A j \in JobIds :
             (perDomainDelayMs <= 0 /\ jpc[j] = "idle" /\ jpc'[j] # "idle") =>
                 /\ jpc'[j] = "throttled"
                 /\ dispatched'[j] = now
                 /\ domainLastRequest' = domainLastRequest]_vars

\* With a negative delay, two jobs for one host and one for a string that is
\* no url have returned from throttleDomain at the same time.
C33_Witness ==
    /\ perDomainDelayMs < 0
    /\ now > 0
    /\ \E a, b, c \in JobIds :
          /\ a # b
          /\ jurl[a] = "a/1" /\ jurl[b] = "a/2" /\ jurl[c] = NotAUrl
          /\ dispatched[a] = now /\ dispatched[b] = now /\ dispatched[c] = now

\* ------------------------------------------------------------ more claims on SpecHaltLive
\* C34: an idle entry and a suspended acquire never coexist: while the
\* waiter list is not empty the idle list is empty.
C34_NoIdleWithWaiter ==
    waiters # <<>> => available = <<>>

\* ------------------------------------------------------------ slot accounting on SpecPool
\* The callers that have the entry of slot id: they were handed it, or they
\* popped it and are at the liveness probe or about to return it.
Holders(id) ==
    {j \in JobIds : \/ held[j] # NoHandle /\ entries[held[j]].id = id
                    \/ /\ jpc[j] \in {"probe", "acqFresh"}
                       /\ entries[jentry[j]].id = id}

\* The recycles in progress of slot id: started by a release, or by the
\* failed probe of an acquire.
RecyclesOf(id) ==
    Cardinality({t \in recycling : entries[t.old].id = id})
        + Cardinality({j \in JobIds : /\ jpc[j] \in {"acqClose", "acqCreate"}
                                      /\ entries[jentry[j]].id = id})

\* In how many of the three places slot id is: idle, held, being recycled.
PlacesOf(id) ==
    Count(available, contexts[id]) + Cardinality(Holders(id)) + RecyclesOf(id)

\* C35: once initialize has finished, the pool has `concurrency` slots, and
\* each slot is in exactly one place: idle (once), held by one caller, or
\* being recycled.
C35_SlotsConserved ==
    ipc[1] = "done" =>
        /\ Cardinality(DOMAIN contexts) = concurrency
        /\ \A id \in DOMAIN contexts : PlacesOf(id) = 1

\* C36: with contextMaxUses > 0 no entry's useCount exceeds it; useCount of an
\* entry changes only when a caller obtains the entry, and then by exactly 1;
\* the useCount a slot shows goes back only to 0 and only when a recycle that
\* was in progress replaces the slot's entry by a new one.
C36_UseCountBounded ==
    [][/\ \A h \in DOMAIN entries' :
             contextMaxUses > 0 => entries'[h].useCount <= contextMaxUses
       /\ \A h \in DOMAIN entries :
             entries'[h].useCount # entries[h].useCount =>
                 /\ entries'[h].useCount = entries[h].useCount + 1
                 /\ \E j \in JobIds : Obtains(j) /\ held'[j] = h
       /\ \A j \in JobIds :
             Obtains(j) => entries'[held'[j]].useCount = entries[held'[j]].useCount + 1
       /\ \A id \in DOMAIN contexts :
             entries'[contexts'[id]].useCount < entries[contexts[id]].useCount =>
                 /\ contexts[id] \in RecyclingOld
                 /\ contexts'[id] \notin DOMAIN entries
                 /\ entries'[contexts'[id]].useCount = 0]_vars

\* A caller holds the entry a recycle installed, used contextMaxUses times.
C36_Witness ==
    \E j \in JobIds :
        /\ contextMaxUses = MaxUses
        /\ held[j] > concurrency
        /\ faults = 0
        /\ entries[held[j]].useCount = contextMaxUses

\* C37: stats is consistent with the entries: total = available + busy, and
\* busy is the number of per-entry records whose busy flag is true.
C37_StatsConsistent ==
    /\ stats.total = stats.available + stats.busy
    /\ stats.busy = Cardinality({id \in DOMAIN stats.contexts : stats.contexts[id].busy})

\* ------------------------------------------------------------ more claims on the shut down pool
\* Caller j releases its handle in this step.
Releases(j) ==
    /\ jpc[j] \in {"acquired", "pageClose"}
    /\ held[j] # NoHandle
    /\ held'[j] = NoHandle

\* C38: releasing a handle that is the context of no entry of the pool (the
\* map was cleared by shutdown, or the handle was never or is no longer in
\* it) changes nothing: not the idle list, not the waiters, not the entries,
\* and no waiter is resumed.
C38_ForeignReleaseNoOp ==
    [][\A j \in JobIds :
          (Releases(j) /\ OwnerSlots(held[j]) = {}) =>
              /\ available' = available
              /\ waiters' = waiters
              /\ entries' = entries
              /\ contexts' = contexts
              /\ recycling' = recycling
              /\ \A w \in JobIds \ {j} : jpc'[w] = jpc[w] /\ held'[w] = held[w]
      ]_vars

\* A handle was released after shutdown cleared the map: its entry still has
\* the busy flag, nobody holds it, and another caller is waiting.
C38_Witness ==
    \E h \in DOMAIN entries :
        /\ entries[h].busy
        /\ \A j \in JobIds : held[j] # h
        /\ OwnerSlots(h) = {}
        /\ waiters # <<>>

\* ------------------------------------------------------------ more claims on SpecHaltLive
\* C39: with contextMaxUses = 0 and jobs submitted through scrapeMany and
\* scrapeStream only, no acquire is ever suspended: the waiter list is empty.
C39_NeverWaits ==
    (contextMaxUses = 0 /\ \A c \in Calls : ckind[c] # "scrape") => waiters = <<>>

====
